---- MODULE Spec2Model ----
(***************************************************************************)
(* PiCar-X "Okay Robot": the threads that share the car's actuators       *)
(* (voice main loop, signal handler, safety monitor, autonomous sub-loops, *)
(* keyboard listener, wake-up nod) and the RobotState flags they poll.     *)
(*                                                                         *)
(* Granularity.  Every call on `car` is one step.  time.sleep() is the gap *)
(* between two steps of a thread.  A `with state.lock:` block holding one  *)
(* assignment is one step that needs the lock free; a block holding two    *)
(* assignments is two steps with the lock held in between.  A blocking     *)
(* call on a collaborator (sensor read, stt.listen, key read) returns a    *)
(* value chosen from a bounded set in the step that consumes it.  A write  *)
(* of a flag and the thread start that follows it are one step.            *)
(*                                                                         *)
(* Time.  `elapsed` is time.time() - state.last_command_time, saturated    *)
(* just above COMMAND_TIMEOUT_SECONDS; Tick advances it.  Sleeps of the    *)
(* other threads carry no duration.                                        *)
(*                                                                         *)
(* Environment.  `budget` bounds the stimuli of one run (wake words,       *)
(* texts, key presses, signals, close readings and cliffs seen by the      *)
(* monitor).  Spec runs every thread; SpecKeys and SpecVoice run the       *)
(* robot driven by one input alone, with a larger budget.                  *)
(*                                                                         *)
(* Not modelled: exceptions raised by car.* calls, speech and sound        *)
(* output, the evdev keyboard backend.  The threads run the configuration *)
(* config.py ships (LLM_ENABLED False); SpecFunctions examines the LLM     *)
(* dispatcher and the other configurations one call at a time.            *)
(***************************************************************************)
EXTENDS Integers, Sequences, FiniteSets, TLC

\* ---------------------------------------------------------------- config.py
COMMAND_TIMEOUT_SECONDS == 30
MOVE_SPEED == 30
SAFE_DISTANCE == 40
DANGER_DISTANCE == 20
TOO_CLOSE_DISTANCE == 10
LINE_TRACK_SPEED == 10
LINE_TRACK_OFFSET == 20

\* ------------------------------------------------------------------ bounds
\* Autonomous sub-loop threads alive at once.
MaxLoops == 2
\* Wake-up nod threads alive at once.
MaxNods == 1
\* External stimuli delivered in one run: wake words, recognised texts, key
\* presses, signals, close distance readings and cliff detections of the monitor.
MaxEvents == 2
\* Key presses delivered in one run when the keyboard is the only input.
MaxKeys == 3
\* Wake words, texts and signals delivered in one run when the voice is the only input.
MaxHeard == 3
\* Wake words, texts and signals delivered in one run of the fair voice runs.
MaxHeardFair == 2
\* Seconds by which the wall clock advances in one Tick.
TickSeconds == 15
\* Iterations of the patrol sweep before its deadline passes.
PatrolTicks == 4

\* Distances the ultrasonic sensor returns (cm, after round(., 2)).
Distances == {-1, 0, 5, 15, 30, 45}
\* Line status triples car.get_line_status returns.
LineStatuses == {<<a, b, c>> : a \in {0, 1}, b \in {0, 1}, c \in {0, 1}}

NONE == "None"
Modes == {NONE, "line_track", "obstacle_avoid"}

\* ------------------------------------------------------- actuator operations
SetDir(v) == [a |-> "dir", v |-> v]
Forward(v) == [a |-> "motor", v |-> v]
Backward(v) == [a |-> "motor", v |-> 0 - v]
Stop == [a |-> "motor", v |-> 0]
Pan(v) == [a |-> "pan", v |-> v]
Tilt(v) == [a |-> "tilt", v |-> v]

\* The car after one operation: steering servo, signed motor speed
\* (forward > 0 > backward), camera pan, camera tilt.
ApplyOp(c, op) ==
    CASE op.a = "dir" -> [c EXCEPT !.dir = op.v]
      [] op.a = "motor" -> [c EXCEPT !.motor = op.v]
      [] op.a = "pan" -> [c EXCEPT !.pan = op.v]
      [] op.a = "tilt" -> [c EXCEPT !.tilt = op.v]

RECURSIVE Rep(_, _)
Rep(s, n) == IF n = 0 THEN <<>> ELSE s \o Rep(s, n - 1)

\* ------------------------------------------------------------- actions.py
\* patrol's scan: the pan angle commanded at each iteration.
RECURSIVE Sweep(_, _, _)
Sweep(angle, direction, n) ==
    IF n = 0 THEN <<>>
    ELSE LET next == angle + 5 * direction
             dir2 == IF next > 45 \/ next < -45 THEN 0 - direction ELSE direction
         IN  <<Pan(angle)>> \o Sweep(next, dir2, n - 1)

reset_position == <<Stop, SetDir(0), Pan(0), Tilt(0)>>

nod == <<Tilt(20), Tilt(-10), Tilt(15), Tilt(-5), Tilt(0), Tilt(0)>>

\* A wave that leaves the steering where the last swing put it:
\* ScriptsEndNeutral rejects it.
wave_handsLeavesSteering ==
    <<Tilt(15)>> \o Rep(<<SetDir(25), SetDir(-25)>>, 2) \o <<Tilt(0)>>

wave_hands ==
    <<Tilt(15)>> \o Rep(<<SetDir(25), SetDir(-25)>>, 2) \o <<SetDir(0), Tilt(0)>>

celebrate ==
    <<Tilt(20)>>
    \o Rep(<<Pan(-30), SetDir(-20), Pan(30), SetDir(20)>>, 2)
    \o <<Pan(0), Tilt(0), SetDir(0)>>

\* The operations an action function issues, in order.
Script(f) ==
    CASE f = "forward" -> <<SetDir(0), Forward(30), Stop>>
      [] f = "backward" -> <<SetDir(0), Backward(30), Stop>>
      [] f = "turn_left" -> <<SetDir(-25), Forward(30), Stop, SetDir(0)>>
      [] f = "turn_right" -> <<SetDir(25), Forward(30), Stop, SetDir(0)>>
      [] f = "stop" -> <<Stop, SetDir(0)>>
      [] f = "look_left" -> <<Pan(60)>>
      [] f = "look_right" -> <<Pan(-60)>>
      [] f = "look_up" -> <<Tilt(30)>>
      [] f = "look_down" -> <<Tilt(-30)>>
      [] f = "look_center" -> <<Pan(0), Tilt(0)>>
      [] f = "shake_head" ->
            <<Pan(30), Pan(-30), Pan(20), Pan(-20), Pan(10), Pan(-10), Pan(0), Pan(0)>>
      [] f = "nod" -> nod
      [] f = "wave_hands" -> wave_hands
      [] f = "resist" ->
            <<Tilt(10)>>
            \o Rep(<<SetDir(15), Pan(15), SetDir(-15), Pan(-15)>>, 3)
            \o <<Stop, SetDir(0), Pan(0), Tilt(0)>>
      [] f = "act_cute" ->
            <<Tilt(-15)>>
            \o Rep(<<Forward(15), Stop, Backward(15), Stop>>, 3)
            \o <<Tilt(0)>>
      [] f = "rub_hands" -> Rep(<<SetDir(6), SetDir(-6)>>, 5) \o <<SetDir(0)>>
      [] f = "think" ->
            <<Pan(-30), Tilt(-10), SetDir(15), Pan(-15), SetDir(0), Pan(0), Tilt(0)>>
      [] f = "twist_body" ->
            Rep(<<Forward(15), Stop, Pan(20), SetDir(-15),
                  Backward(15), Stop, Pan(-20), SetDir(15)>>, 3)
            \o <<Stop, SetDir(0), Pan(0)>>
      [] f = "celebrate" -> celebrate
      [] f = "depressed" ->
            <<Tilt(-10), Tilt(-20), Tilt(-15), Tilt(-25), Tilt(-10), Tilt(0)>>
      [] f = "spin_around" -> <<SetDir(35), Forward(30), Stop, SetDir(0)>>
      [] f = "dance" ->
            Rep(<<SetDir(25), Forward(20), SetDir(-25)>>, 2)
            \o <<Stop, SetDir(0)>> \o wave_hands \o celebrate
      [] f = "patrol" -> <<Forward(25)>> \o Sweep(0, 1, PatrolTicks) \o <<Stop, Pan(0)>>
      [] f = "reset_position" -> reset_position

\* ------------------------------------------------- keyword tables
\* actions.py: ACTIONS_DICT, in the order of the source.
ACTIONS_DICT ==
    << <<<<"f","o","r","w","a","r","d">>, "forward">>,
       <<<<"g","o"," ","f","o","r","w","a","r","d">>, "forward">>,
       <<<<"m","o","v","e"," ","f","o","r","w","a","r","d">>, "forward">>,
       <<<<"g","o"," ","a","h","e","a","d">>, "forward">>,
       <<<<"b","a","c","k","w","a","r","d">>, "backward">>,
       <<<<"g","o"," ","b","a","c","k","w","a","r","d">>, "backward">>,
       <<<<"m","o","v","e"," ","b","a","c","k","w","a","r","d">>, "backward">>,
       <<<<"g","o"," ","b","a","c","k">>, "backward">>,
       <<<<"r","e","v","e","r","s","e">>, "backward">>,
       <<<<"b","a","c","k"," ","u","p">>, "backward">>,
       <<<<"t","u","r","n"," ","l","e","f","t">>, "turn_left">>,
       <<<<"g","o"," ","l","e","f","t">>, "turn_left">>,
       <<<<"l","e","f","t">>, "turn_left">>,
       <<<<"t","u","r","n"," ","r","i","g","h","t">>, "turn_right">>,
       <<<<"g","o"," ","r","i","g","h","t">>, "turn_right">>,
       <<<<"r","i","g","h","t">>, "turn_right">>,
       <<<<"s","t","o","p">>, "stop">>,
       <<<<"h","a","l","t">>, "stop">>,
       <<<<"f","r","e","e","z","e">>, "stop">>,
       <<<<"l","o","o","k"," ","l","e","f","t">>, "look_left">>,
       <<<<"l","o","o","k"," ","r","i","g","h","t">>, "look_right">>,
       <<<<"l","o","o","k"," ","u","p">>, "look_up">>,
       <<<<"l","o","o","k"," ","d","o","w","n">>, "look_down">>,
       <<<<"l","o","o","k"," ","c","e","n","t","e","r">>, "look_center">>,
       <<<<"c","e","n","t","e","r">>, "look_center">>,
       <<<<"s","h","a","k","e"," ","h","e","a","d">>, "shake_head">>,
       <<<<"s","a","y"," ","n","o">>, "shake_head">>,
       <<<<"n","o","d">>, "nod">>,
       <<<<"s","a","y"," ","y","e","s">>, "nod">>,
       <<<<"w","a","v","e">>, "wave_hands">>,
       <<<<"w","a","v","e"," ","h","a","n","d","s">>, "wave_hands">>,
       <<<<"r","e","s","i","s","t">>, "resist">>,
       <<<<"r","e","f","u","s","e">>, "resist">>,
       <<<<"a","c","t"," ","c","u","t","e">>, "act_cute">>,
       <<<<"c","u","t","e">>, "act_cute">>,
       <<<<"r","u","b"," ","h","a","n","d","s">>, "rub_hands">>,
       <<<<"t","h","i","n","k">>, "think">>,
       <<<<"t","h","i","n","k","i","n","g">>, "think">>,
       <<<<"t","w","i","s","t">>, "twist_body">>,
       <<<<"t","w","i","s","t"," ","b","o","d","y">>, "twist_body">>,
       <<<<"c","e","l","e","b","r","a","t","e">>, "celebrate">>,
       <<<<"p","a","r","t","y">>, "celebrate">>,
       <<<<"h","a","p","p","y">>, "celebrate">>,
       <<<<"d","e","p","r","e","s","s","e","d">>, "depressed">>,
       <<<<"s","a","d">>, "depressed">>,
       <<<<"s","p","i","n">>, "spin_around">>,
       <<<<"s","p","i","n"," ","a","r","o","u","n","d">>, "spin_around">>,
       <<<<"d","a","n","c","e">>, "dance">>,
       <<<<"p","a","t","r","o","l">>, "patrol">>,
       <<<<"r","e","s","e","t">>, "reset_position">> >>

\* okay_robot.py and config.py: the keyword lists of the dispatcher.
SLEEP_WORDS ==
    {<<"s","l","e","e","p">>,
     <<"g","o"," ","t","o"," ","s","l","e","e","p">>,
     <<"g","o","o","d","b","y","e">>,
     <<"b","y","e">>}

CANCEL_MODE_WORDS ==
    {<<"s","t","o","p"," ","m","o","d","e">>,
     <<"c","a","n","c","e","l"," ","m","o","d","e">>,
     <<"e","x","i","t"," ","m","o","d","e">>,
     <<"n","o","r","m","a","l"," ","m","o","d","e">>}

LINE_TRACK_WORDS ==
    {<<"l","i","n","e"," ","t","r","a","c","k","i","n","g">>,
     <<"t","r","a","c","k"," ","l","i","n","e">>,
     <<"f","o","l","l","o","w"," ","l","i","n","e">>,
     <<"l","i","n","e"," ","t","r","a","c","k">>,
     <<"f","o","l","l","o","w"," ","t","h","e"," ","l","i","n","e">>}

OBSTACLE_WORDS ==
    {<<"o","b","s","t","a","c","l","e"," ","a","v","o","i","d","a","n","c","e">>,
     <<"a","v","o","i","d"," ","o","b","s","t","a","c","l","e","s">>,
     <<"o","b","s","t","a","c","l","e"," ","m","o","d","e">>,
     <<"a","v","o","i","d"," ","m","o","d","e">>}

HORN_WORDS ==
    {<<"h","o","n","k">>,
     <<"h","o","r","n">>,
     <<"b","e","e","p">>}

ENGINE_WORDS ==
    {<<"s","t","a","r","t"," ","e","n","g","i","n","e">>,
     <<"e","n","g","i","n","e">>}

STATUS_WORDS ==
    {<<"s","t","a","t","u","s">>,
     <<"h","o","w"," ","a","r","e"," ","y","o","u">>,
     <<"w","h","a","t","'","s"," ","u","p">>}

HELP_WORDS ==
    {<<"h","e","l","p">>,
     <<"w","h","a","t"," ","c","a","n"," ","y","o","u"," ","d","o">>,
     <<"c","o","m","m","a","n","d","s">>}

STOP_WORDS ==
    {<<"s","t","o","p">>,
     <<"h","a","l","t">>,
     <<"f","r","e","e","z","e">>}

WAKE_WORDS ==
    {<<"o","k","a","y"," ","r","o","b","o","t">>,
     <<"o","k"," ","r","o","b","o","t">>,
     <<"h","e","y"," ","r","o","b","o","t">>}

UPPER == <<"A","B","C","D","E","F","G","H","I","J","K","L","M","N","O","P","Q","R","S","T","U","V","W","X","Y","Z">>

LOWER == <<"a","b","c","d","e","f","g","h","i","j","k","l","m","n","o","p","q","r","s","t","u","v","w","x","y","z">>

\* keyboard_control.py: KEY_MAP (arrow keys by name).
KEY_MAP ==
    ("UP" :> <<"f","o","r","w","a","r","d">>) @@
    ("DOWN" :> <<"b","a","c","k","w","a","r","d">>) @@
    ("LEFT" :> <<"t","u","r","n","_","l","e","f","t">>) @@
    ("RIGHT" :> <<"t","u","r","n","_","r","i","g","h","t">>) @@
    (" " :> <<"s","t","o","p">>) @@
    ("w" :> <<"l","o","o","k","_","u","p">>) @@
    ("a" :> <<"l","o","o","k","_","l","e","f","t">>) @@
    ("x" :> <<"l","o","o","k","_","d","o","w","n">>) @@
    ("e" :> <<"l","o","o","k","_","r","i","g","h","t">>) @@
    ("c" :> <<"l","o","o","k","_","c","e","n","t","e","r">>) @@
    ("d" :> <<"d","a","n","c","e">>) @@
    ("s" :> <<"s","h","a","k","e","_","h","e","a","d">>) @@
    ("n" :> <<"n","o","d">>) @@
    ("v" :> <<"w","a","v","e","_","h","a","n","d","s">>) @@
    ("b" :> <<"c","e","l","e","b","r","a","t","e">>) @@
    ("g" :> <<"a","c","t","_","c","u","t","e">>) @@
    ("t" :> <<"t","h","i","n","k">>) @@
    ("p" :> <<"p","a","t","r","o","l">>) @@
    ("o" :> <<"s","p","i","n","_","a","r","o","u","n","d">>) @@
    ("j" :> <<"t","w","i","s","t","_","b","o","d","y">>) @@
    ("k" :> <<"d","e","p","r","e","s","s","e","d">>) @@
    ("r" :> <<"r","e","s","e","t">>) @@
    ("h" :> <<"h","o","r","n">>) @@
    ("1" :> <<"m","o","d","e","_","l","i","n","e">>) @@
    ("2" :> <<"m","o","d","e","_","o","b","s","t","a","c","l","e">>) @@
    ("0" :> <<"m","o","d","e","_","c","a","n","c","e","l">>) @@
    ("?" :> <<"h","e","l","p">>)

\* Recognised texts the model feeds to the main loop.
Utterances ==
    {<<>>,
     <<" ">>,
     <<"o","k","a","y"," ","r","o","b","o","t">>,
     <<"H","e","y"," ","r","o","b","o","t"," ","g","o"," ","t","o"," ","s","l","e","e","p">>,
     <<"g","o"," ","t","o"," ","s","l","e","e","p">>,
     <<"c","a","n","c","e","l"," ","m","o","d","e">>,
     <<"l","i","n","e"," ","t","r","a","c","k","i","n","g">>,
     <<"o","b","s","t","a","c","l","e"," ","m","o","d","e">>,
     <<"s","t","o","p">>,
     <<"F","o","r","w","a","r","d">>,
     <<"h","e","l","l","o">>}

\* ------------------------------------------------------------ text helpers
\* Texts are sequences of one-character strings.
LowerChar(c) ==
    IF \E k \in 1..Len(UPPER) : UPPER[k] = c
    THEN LOWER[CHOOSE k \in 1..Len(UPPER) : UPPER[k] = c]
    ELSE c

Lower(text) == [k \in 1..Len(text) |-> LowerChar(text[k])]

RECURSIVE LStrip(_)
LStrip(text) ==
    IF text # <<>> /\ Head(text) = " " THEN LStrip(Tail(text)) ELSE text

RECURSIVE RStrip(_)
RStrip(text) ==
    IF text # <<>> /\ text[Len(text)] = " "
    THEN RStrip(SubSeq(text, 1, Len(text) - 1))
    ELSE text

Strip(text) == RStrip(LStrip(text))

\* Python's `w in text` on strings.
Contains(w, text) ==
    \E k \in 1..(Len(text) - Len(w) + 1) : SubSeq(text, k, k + Len(w) - 1) = w

AnyIn(ws, text) == \E w \in ws : Contains(w, text)

Replace(text, from, to) == [k \in 1..Len(text) |-> IF text[k] = from THEN to ELSE text[k]]

\* Index in ACTIONS_DICT of the key equal to `name`, 0 when there is none.
DictIndex(name) ==
    IF \E k \in 1..Len(ACTIONS_DICT) : ACTIONS_DICT[k][1] = name
    THEN CHOOSE k \in 1..Len(ACTIONS_DICT) : ACTIONS_DICT[k][1] = name
    ELSE 0

\* A dispatch that takes the shortest keyword found: LongestKeywordWins rejects it.
ShortestMatch(text) ==
    LET hits == {k \in 1..Len(ACTIONS_DICT) : Contains(ACTIONS_DICT[k][1], text)}
    IN  IF hits = {} THEN 0
        ELSE CHOOSE k \in hits :
                \A j \in hits :
                    \/ Len(ACTIONS_DICT[j][1]) > Len(ACTIONS_DICT[k][1])
                    \/ Len(ACTIONS_DICT[j][1]) = Len(ACTIONS_DICT[k][1]) /\ k <= j

\* First key of sorted(ACTIONS_DICT.keys(), key=len, reverse=True) found in
\* `text` (the sort is stable: equal lengths keep the table's order); 0 when
\* no key is found.
LongestMatch(text) ==
    LET hits == {k \in 1..Len(ACTIONS_DICT) : Contains(ACTIONS_DICT[k][1], text)}
    IN  IF hits = {} THEN 0
        ELSE CHOOSE k \in hits :
                \A j \in hits :
                    \/ Len(ACTIONS_DICT[j][1]) < Len(ACTIONS_DICT[k][1])
                    \/ Len(ACTIONS_DICT[j][1]) = Len(ACTIONS_DICT[k][1]) /\ k <= j

\* What process_command_keyword resolves a text to.
process_command_keyword(text0) ==
    LET text == Strip(Lower(text0))
    IN  IF text = <<>> THEN [kind |-> "empty", f |-> ""]
        ELSE IF AnyIn(SLEEP_WORDS, text) THEN [kind |-> "sleep", f |-> ""]
        ELSE IF AnyIn(CANCEL_MODE_WORDS, text) THEN [kind |-> "cancel", f |-> ""]
        ELSE IF AnyIn(LINE_TRACK_WORDS, text) THEN [kind |-> "mode_line", f |-> ""]
        ELSE IF AnyIn(OBSTACLE_WORDS, text) THEN [kind |-> "mode_obstacle", f |-> ""]
        ELSE IF AnyIn(HORN_WORDS, text) THEN [kind |-> "sound", f |-> ""]
        ELSE IF AnyIn(ENGINE_WORDS, text) THEN [kind |-> "sound", f |-> ""]
        ELSE IF AnyIn(STATUS_WORDS, text) THEN [kind |-> "say", f |-> ""]
        ELSE IF AnyIn(HELP_WORDS, text) THEN [kind |-> "say", f |-> ""]
        ELSE IF text \in STOP_WORDS THEN [kind |-> "stop", f |-> ""]
        ELSE IF DictIndex(text) # 0
             THEN [kind |-> "action", f |-> ACTIONS_DICT[DictIndex(text)][2]]
        ELSE IF LongestMatch(text) # 0
             THEN [kind |-> "action", f |-> ACTIONS_DICT[LongestMatch(text)][2]]
        ELSE [kind |-> "unhandled", f |-> ""]

\* Python's str.upper() on the letters a-z.
Upper(text) ==
    [k \in 1..Len(text) |->
        IF \E n \in 1..Len(LOWER) : LOWER[n] = text[k]
        THEN UPPER[CHOOSE n \in 1..Len(LOWER) : LOWER[n] = text[k]]
        ELSE text[k]]

\* Python's text.split(sep) for a one-character sep.
RECURSIVE Split(_, _)
Split(text, sep) ==
    IF \E k \in 1..Len(text) : text[k] = sep
    THEN LET k == CHOOSE k \in 1..Len(text) :
                     text[k] = sep /\ \A n \in 1..(k - 1) : text[n] # sep
         IN  <<SubSeq(text, 1, k - 1)>> \o Split(SubSeq(text, k + 1, Len(text)), sep)
    ELSE <<text>>

\* process_command_llm: the loop over the lines of the response, which
\* collects the lines to speak and the action names of the ACTIONS: line.
RECURSIVE ParseResponse(_, _, _)
ParseResponse(lines, speech_parts, action_names) ==
    IF lines = <<>> THEN [speech |-> speech_parts, names |-> action_names]
    ELSE LET line == Strip(Head(lines))
             action_str == Strip(SubSeq(line, 9, Len(line)))
             parts == Split(action_str, ",")
         IN  IF Len(line) >= 8
                /\ SubSeq(Upper(line), 1, 8) = <<"A","C","T","I","O","N","S",":">>
             THEN ParseResponse(Tail(lines), speech_parts,
                      [k \in 1..Len(parts) |->
                          Replace(Replace(Lower(Strip(parts[k])), " ", "_"), "_", " ")])
             ELSE ParseResponse(Tail(lines),
                      IF line # <<>> THEN Append(speech_parts, line) ELSE speech_parts,
                      action_names)

\* An execute_actions that gives up at the first action that raises:
\* ResponseLinesParsed rejects it.
RECURSIVE execute_actionsStopsOnError(_, _)
execute_actionsStopsOnError(action_names, broken) ==
    IF action_names = <<>> THEN <<>>
    ELSE LET name == Strip(Lower(Head(action_names)))
             f == ACTIONS_DICT[DictIndex(name)][2]
         IN  IF DictIndex(name) = 0 THEN execute_actionsStopsOnError(Tail(action_names), broken)
             ELSE IF f \in broken THEN <<[f |-> f, raised |-> TRUE]>>
             ELSE <<[f |-> f, raised |-> FALSE]>>
                  \o execute_actionsStopsOnError(Tail(action_names), broken)

\* execute_actions: the functions called for a list of action names, the
\* names missing from ACTIONS_DICT skipped; a function of `broken` raises and
\* the `except Exception` goes on with the next name.
RECURSIVE execute_actions(_, _)
execute_actions(action_names, broken) ==
    IF action_names = <<>> THEN <<>>
    ELSE LET name == Strip(Lower(Head(action_names)))
             f == ACTIONS_DICT[DictIndex(name)][2]
         IN  (IF DictIndex(name) # 0 THEN <<[f |-> f, raised |-> f \in broken]>> ELSE <<>>)
             \o execute_actions(Tail(action_names), broken)

\* f"<<<Ultrasonic sense too close: {dist}cm>>> " + text
Annotated(dist, text) ==
    <<"<","<","<","U","l","t","r","a","s","o","n","i","c"," ","s","e","n","s","e"," ",
      "t","o","o"," ","c","l","o","s","e",":"," ">> \o dist
    \o <<"c","m",">",">",">"," ">> \o text

\* A fallback that resolves nothing: ChatFailureFallsBack rejects it.
FallbackGivesUp(text) == [kind |-> "unhandled", f |-> ""]

\* process_command_llm: the chat call raised.
Fallback(text) == process_command_keyword(text)

\* What process_command_llm resolves a text to: `asked` tells whether the
\* chat collaborator was called; `chat` tells whether the call raises, what it
\* responds and which action functions raise; `speech` is what is spoken of
\* the response and `acts` the functions called by execute_actions.
process_command_llm(text0, llm, is_too_close, dist, chat) ==
    LET text == Strip(Lower(text0))
        sent == IF is_too_close THEN Annotated(dist, text) ELSE text
        quiet == [asked |-> FALSE, acts |-> <<>>, speech |-> <<>>]
        parsed == ParseResponse(Split(chat.response, "\n"), <<>>, <<>>)
    IN  IF ~llm THEN process_command_keyword(text0) @@ quiet
        ELSE IF text = <<>> THEN [kind |-> "empty", f |-> ""] @@ quiet
        ELSE IF AnyIn(SLEEP_WORDS, text) THEN [kind |-> "sleep", f |-> ""] @@ quiet
        ELSE IF text \in STOP_WORDS THEN [kind |-> "stop", f |-> ""] @@ quiet
        ELSE IF chat.raises
             THEN Fallback(sent) @@ [asked |-> TRUE, acts |-> <<>>, speech |-> <<>>]
        ELSE [kind |-> "chat", f |-> "", asked |-> TRUE, speech |-> parsed.speech,
              acts |-> IF parsed.names # <<>> THEN execute_actions(parsed.names, chat.broken)
                       ELSE <<>>]

\* What the keyboard's dispatch_action resolves an action name to.
dispatch_action(action_name) ==
    IF action_name = <<"m","o","d","e","_","l","i","n","e">>
    THEN [kind |-> "mode_line", f |-> ""]
    ELSE IF action_name = <<"m","o","d","e","_","o","b","s","t","a","c","l","e">>
    THEN [kind |-> "mode_obstacle", f |-> ""]
    ELSE IF action_name = <<"m","o","d","e","_","c","a","n","c","e","l">>
    THEN [kind |-> "cancel", f |-> ""]
    ELSE IF action_name = <<"h","o","r","n">>
    THEN [kind |-> "sound", f |-> ""]
    ELSE IF DictIndex(Replace(action_name, "_", " ")) # 0
    THEN [kind |-> "action",
          f |-> ACTIONS_DICT[DictIndex(Replace(action_name, "_", " "))][2]]
    ELSE IF DictIndex(action_name) # 0
    THEN [kind |-> "action", f |-> ACTIONS_DICT[DictIndex(action_name)][2]]
    ELSE [kind |-> "unhandled", f |-> ""]

\* Bounded inputs of the model: what stt.listen returns, which keys are pressed.
Resolved == [u \in Utterances |-> process_command_keyword(u)]
\* A wake-word test on the whole text: WakeTextNotDispatched rejects it.
IsWakeExact == [u \in Utterances |-> Lower(u) \in WAKE_WORDS]

\* is_wake = any(w in text.lower() for w in WAKE_WORDS)
IsWake == [u \in Utterances |-> AnyIn(WAKE_WORDS, Lower(u))]
KeyPresses == {"q", "1", "2", "0", " ", "UP", "n", "?", "z"}

\* ------------------------------------------------------------------- state
VARIABLES
    running,          \* RobotState.running
    awake,            \* RobotState.awake
    listening,        \* RobotState.listening
    autonomous_mode,  \* RobotState.autonomous_mode
    too_close,        \* RobotState.too_close
    elapsed,          \* time.time() - state.last_command_time, saturated above the timeout
    lock,             \* holder of RobotState.lock across steps, "free" otherwise
    car,              \* the actuators: steering, motor, camera pan and tilt
    main,             \* the main thread (voice loop)
    sig,              \* the signal handler, run on the main thread
    sm,               \* the safety monitor thread
    kb,               \* the keyboard listener thread
    loops,            \* the autonomous sub-loop threads
    nods,             \* the wake-up nod threads
    budget,           \* external stimuli the environment may still deliver
    probe             \* a function under examination: its input, then its result

vars ==
    <<running, awake, listening, autonomous_mode, too_close, elapsed, lock,
      car, main, sig, sm, kb, loops, nods, budget, probe>>

flags == <<running, awake, listening, autonomous_mode, too_close, elapsed, lock>>

Loops == 1..MaxLoops
Nods == 1..MaxNods

\* A thread is a program counter and the operation sequence it is issuing:
\* todo[i] is the next operation, ret the program counter after the last one.
Thread(pc) == [pc |-> pc, todo |-> <<>>, i |-> 1, ret |-> ""]
IdleLoop ==
    [pc |-> "idle", todo |-> <<>>, i |-> 1, ret |-> "", tag |-> NONE,
     last_state |-> "stop", stale |-> FALSE]

Begin(th, seq, ret) ==
    IF seq = <<>> THEN [th EXCEPT !.pc = ret]
    ELSE [th EXCEPT !.pc = "ops", !.todo = seq, !.i = 1, !.ret = ret]

Advance(th) ==
    IF th.i = Len(th.todo)
    THEN [th EXCEPT !.pc = th.ret, !.todo = <<>>, !.i = 1, !.ret = ""]
    ELSE [th EXCEPT !.i = th.i + 1]

\* The process has not exited: the threads are daemons and die with main().
Alive == main.pc # "exit"

\* One more external stimulus is delivered.
Deliver == budget > 0 /\ budget' = budget - 1 /\ UNCHANGED probe

Constructed ==
    /\ running = TRUE
    /\ awake = FALSE
    /\ listening = FALSE
    /\ autonomous_mode = NONE
    /\ too_close = FALSE
    /\ elapsed = COMMAND_TIMEOUT_SECONDS + 1
    /\ lock = "free"
    /\ car = [dir |-> 0, motor |-> 0, pan |-> 0, tilt |-> 0]
    /\ main = Thread("loop") @@ [handled |-> TRUE, text |-> <<>>]
    /\ sig = Thread("idle")
    /\ sm = Thread("loop") @@ [distance |-> -1, read_failed |-> FALSE]
    /\ kb = Thread("loop") @@ [key |-> ""]
    /\ loops = [t \in Loops |-> IdleLoop]
    /\ nods = [n \in Nods |-> Thread("idle")]

\* No function is under examination while the threads run.
NoProbe == [fn |-> "none"]

Init == Constructed /\ budget = MaxEvents /\ probe = NoProbe

\* The wall clock advances.
Tick ==
    /\ Alive
    /\ elapsed <= COMMAND_TIMEOUT_SECONDS
    /\ elapsed' = IF elapsed + TickSeconds > COMMAND_TIMEOUT_SECONDS
                  THEN COMMAND_TIMEOUT_SECONDS + 1
                  ELSE elapsed + TickSeconds
    /\ UNCHANGED <<running, awake, listening, autonomous_mode, too_close, lock,
                   car, main, sig, sm, kb, loops, nods>>
    /\ UNCHANGED <<budget, probe>>

\* ---------------------------------------------------------- safety_monitor
EmergencySeq == <<SetDir(0), Backward(MOVE_SPEED), Stop>>
SteerAwaySeq == <<SetDir(30), Forward(MOVE_SPEED)>>
CliffSeq == <<Stop, SetDir(0), Backward(MOVE_SPEED), Stop>>

\* The branch the distance check takes on a reading.
SafetyBranch(distance, mode) ==
    IF distance > 0
    THEN IF distance < TOO_CLOSE_DISTANCE THEN "emergency"
         ELSE IF distance < DANGER_DISTANCE /\ mode = "obstacle_avoid" THEN "steer_away"
         ELSE "clear"
    ELSE "skip"

\* A monitor that dies of a failed ultrasonic read: MonitorSurvivesReadFailures
\* rejects it.
SmLoopDiesOnFailure ==
    /\ Alive
    /\ sm.pc = "loop"
    /\ IF running
       THEN \/ \E d \in Distances :
                  /\ sm' = [sm EXCEPT !.pc = "branch", !.distance = d]
                  /\ IF 0 < d /\ d < DANGER_DISTANCE THEN Deliver ELSE UNCHANGED <<budget, probe>>
            \/ /\ sm' = [sm EXCEPT !.pc = "done"]
               /\ UNCHANGED <<budget, probe>>
       ELSE /\ sm' = [sm EXCEPT !.pc = "done"]
            /\ UNCHANGED <<budget, probe>>
    /\ UNCHANGED <<flags, car, main, sig, kb, loops, nods>>

\* `while state.running:` and the ultrasonic read; when the read raises the
\* inner `except Exception: pass` leads to the cliff check (read_failed records
\* it until that check).
SmLoop ==
    /\ Alive
    /\ sm.pc = "loop"
    /\ IF running
       THEN \/ \E d \in Distances :
                  /\ sm' = [sm EXCEPT !.pc = "branch", !.distance = d]
                  /\ IF 0 < d /\ d < DANGER_DISTANCE THEN Deliver ELSE UNCHANGED <<budget, probe>>
            \/ /\ sm' = [sm EXCEPT !.pc = "cliff", !.read_failed = TRUE]
               /\ UNCHANGED <<budget, probe>>
       ELSE /\ sm' = [sm EXCEPT !.pc = "done"]
            /\ UNCHANGED <<budget, probe>>
    /\ UNCHANGED <<flags, car, main, sig, kb, loops, nods>>

SmBranch ==
    /\ Alive
    /\ sm.pc = "branch"
    /\ LET b == SafetyBranch(sm.distance, autonomous_mode)
           seen == [sm EXCEPT !.distance = -1]
       IN  CASE b = "emergency" ->
                  /\ lock = "free"
                  /\ too_close' = TRUE
                  /\ sm' = Begin(seen, EmergencySeq, "cliff")
             [] b = "steer_away" ->
                  /\ sm' = Begin(seen, SteerAwaySeq, "cliff")
                  /\ UNCHANGED too_close
             [] b = "clear" ->
                  /\ sm' = [seen EXCEPT !.pc = "clear"]
                  /\ UNCHANGED too_close
             [] b = "skip" ->
                  /\ sm' = [seen EXCEPT !.pc = "cliff"]
                  /\ UNCHANGED too_close
    /\ UNCHANGED <<running, awake, listening, autonomous_mode, elapsed, lock,
                   car, main, sig, kb, loops, nods>>
    /\ UNCHANGED <<budget, probe>>

\* A monitor that cancels the mode when the way is clear: ModeWrittenByCommands rejects it.
SmClearCancelsMode ==
    /\ Alive
    /\ sm.pc = "clear"
    /\ lock = "free"
    /\ too_close' = FALSE
    /\ autonomous_mode' = NONE
    /\ sm' = [sm EXCEPT !.pc = "cliff"]
    /\ UNCHANGED <<running, awake, listening, elapsed, lock,
                   car, main, sig, kb, loops, nods>>
    /\ UNCHANGED <<budget, probe>>

\* else: with state.lock: state.too_close = False
SmClear ==
    /\ Alive
    /\ sm.pc = "clear"
    /\ lock = "free"
    /\ too_close' = FALSE
    /\ sm' = [sm EXCEPT !.pc = "cliff"]
    /\ UNCHANGED <<running, awake, listening, autonomous_mode, elapsed, lock,
                   car, main, sig, kb, loops, nods>>
    /\ UNCHANGED <<budget, probe>>

\* A monitor that backs off from a cliff only while a mode is active:
\* CliffAlwaysBacksOff rejects it.
SmCliffOnlyInMode ==
    /\ Alive
    /\ sm.pc = "cliff"
    /\ \/ /\ sm' = IF autonomous_mode = NONE THEN [sm EXCEPT !.pc = "loop", !.read_failed = FALSE]
                   ELSE Begin([sm EXCEPT !.read_failed = FALSE], CliffSeq, "loop")
          /\ Deliver
       \/ /\ sm' = [sm EXCEPT !.pc = "loop", !.read_failed = FALSE]
          /\ UNCHANGED <<budget, probe>>
    /\ UNCHANGED <<flags, car, main, sig, kb, loops, nods>>

\* The grayscale read and car.get_cliff_status: a cliff starts the back-off;
\* no cliff, or a read that raises (`except Exception: pass`), goes on to
\* time.sleep(0.1) and the next iteration.
SmCliff ==
    /\ Alive
    /\ sm.pc = "cliff"
    /\ \/ /\ sm' = Begin([sm EXCEPT !.read_failed = FALSE], CliffSeq, "loop")
          /\ Deliver
       \/ /\ sm' = [sm EXCEPT !.pc = "loop", !.read_failed = FALSE]
          /\ UNCHANGED <<budget, probe>>
    /\ UNCHANGED <<flags, car, main, sig, kb, loops, nods>>

SmOp ==
    /\ Alive
    /\ sm.pc = "ops"
    /\ car' = ApplyOp(car, sm.todo[sm.i])
    /\ sm' = Advance(sm)
    /\ UNCHANGED <<flags, main, sig, kb, loops, nods>>
    /\ UNCHANGED <<budget, probe>>

SafetyMonitor == SmLoop \/ SmBranch \/ SmClear \/ SmCliff \/ SmOp

\* ------------------------------------------------------- autonomous modes
\* A classification that looks at the outer sensors before the centre:
\* LineClassification rejects it.
LineStateOuterFirst(s) ==
    IF s = <<0, 0, 0>> THEN "stop"
    ELSE IF s[1] = 1 THEN "right"
    ELSE IF s[3] = 1 THEN "left"
    ELSE IF s[2] = 1 THEN "forward"
    ELSE "stop"

\* line_tracking_loop: classification of the line status.
LineState(s) ==
    IF s = <<0, 0, 0>> THEN "stop"
    ELSE IF s[2] = 1 THEN "forward"
    ELSE IF s[1] = 1 THEN "right"
    ELSE IF s[3] = 1 THEN "left"
    ELSE "stop"

\* A recovery that steers to the side of the last classification:
\* LostRecoveryReverses rejects it.
LineTrackOpsSameSide(gm_state, last_state) ==
    CASE gm_state = "forward" -> <<SetDir(0), Forward(LINE_TRACK_SPEED)>>
      [] gm_state = "left" -> <<SetDir(LINE_TRACK_OFFSET), Forward(LINE_TRACK_SPEED)>>
      [] gm_state = "right" -> <<SetDir(0 - LINE_TRACK_OFFSET), Forward(LINE_TRACK_SPEED)>>
      [] OTHER ->
            IF last_state = "left" THEN <<SetDir(30), Backward(10)>>
            ELSE IF last_state = "right" THEN <<SetDir(-30), Backward(10)>>
            ELSE <<>>

\* line_tracking_loop: the operations of one iteration.
LineTrackOps(gm_state, last_state) ==
    CASE gm_state = "forward" -> <<SetDir(0), Forward(LINE_TRACK_SPEED)>>
      [] gm_state = "left" -> <<SetDir(LINE_TRACK_OFFSET), Forward(LINE_TRACK_SPEED)>>
      [] gm_state = "right" -> <<SetDir(0 - LINE_TRACK_OFFSET), Forward(LINE_TRACK_SPEED)>>
      [] OTHER ->
            IF last_state = "left" THEN <<SetDir(-30), Backward(10)>>
            ELSE IF last_state = "right" THEN <<SetDir(30), Backward(10)>>
            ELSE <<>>

\* A loop that remembers the Lost classification too: LostKeepsCommand
\* rejects it.
LineIterationForgets(s, last_state) ==
    LET gm == LineState(s)
    IN  [gm_state |-> gm, last_state |-> gm, ops |-> LineTrackOps(gm, gm)]

\* line_tracking_loop: one iteration on a line status: the classification,
\* the remembered classification, the operations.
LineIteration(s, last_state) ==
    LET gm == LineState(s)
        last == IF gm # "stop" THEN gm ELSE last_state
    IN  [gm_state |-> gm, last_state |-> last, ops |-> LineTrackOps(gm, last)]

\* A loop that steers at SAFE_DISTANCE itself: ObstacleRangesPartition
\* rejects it.
ObstacleOpsLateSafe(distance) ==
    IF distance > SAFE_DISTANCE THEN <<SetDir(0), Forward(MOVE_SPEED)>>
    ELSE IF distance >= DANGER_DISTANCE THEN <<SetDir(30), Forward(MOVE_SPEED)>>
    ELSE <<SetDir(-30), Backward(MOVE_SPEED)>>

\* obstacle_avoid_loop: the operations of one iteration on a reading >= 0.
ObstacleOps(distance) ==
    IF distance >= SAFE_DISTANCE THEN <<SetDir(0), Forward(MOVE_SPEED)>>
    ELSE IF distance >= DANGER_DISTANCE THEN <<SetDir(30), Forward(MOVE_SPEED)>>
    ELSE <<SetDir(-30), Backward(MOVE_SPEED)>>

\* obstacle_avoid_loop: the operations of one iteration; `if distance < 0:
\* continue` issues none.
ObstacleIteration(distance) ==
    IF distance < 0 THEN <<>> ELSE ObstacleOps(distance)

\* A loop that leaves the motors as they are when it ends: SleepNeutralises
\* rejects it.
LoopExitKeepsDriving == <<SetDir(0)>>

\* After either loop: car.stop(); car.set_dir_servo_angle(0).
LoopExitSeq == <<Stop, SetDir(0)>>

\* A loop test that only a cancel ends: ModeExclusivity rejects it.
CancelledByNone(mode, tag) == mode = NONE

\* The loop condition's second operand, negated: the mode is no longer the loop's.
Cancelled(mode, tag) == mode # tag

\* History of a live sub-loop: since it was started, its exit condition has
\* held in some state (stale).  Recorded by every step that writes running or
\* autonomous_mode; not read by any thread.
Mark(ls, mode, run) ==
    [t \in Loops |->
        IF ls[t].pc = "idle" THEN ls[t]
        ELSE [ls[t] EXCEPT !.stale = @ \/ Cancelled(mode, ls[t].tag) \/ ~run]]

\* threading.Thread(target=..., daemon=True).start(): the new thread takes
\* the first free slot and stands before its first loop test.
CanStart == \E t \in Loops : loops[t].pc = "idle"

StartLoop(tag) ==
    LET t == CHOOSE t \in Loops :
                 loops[t].pc = "idle" /\ \A u \in Loops : u < t => loops[u].pc # "idle"
    IN  [Mark(loops, tag, running) EXCEPT
            ![t] = [IdleLoop EXCEPT !.pc = "check", !.tag = tag, !.stale = ~running]]

\* `while state.running and ...`: the first operand.
LoopCheck(t) ==
    /\ Alive
    /\ loops[t].pc = "check"
    /\ loops' = [loops EXCEPT ![t] =
                    IF running THEN [@ EXCEPT !.pc = "check2"]
                    ELSE Begin(@, LoopExitSeq, "idle")]
    /\ UNCHANGED <<flags, car, main, sig, sm, kb, nods>>
    /\ UNCHANGED <<budget, probe>>

\* The second operand, `state.autonomous_mode == <tag>`, and, when it holds,
\* the sensor read and the choice of this iteration's operations.
LoopBody(t) ==
    /\ Alive
    /\ loops[t].pc = "check2"
    /\ IF Cancelled(autonomous_mode, loops[t].tag)
       THEN loops' = [loops EXCEPT ![t] = Begin(@, LoopExitSeq, "idle")]
       ELSE \/ loops' = [loops EXCEPT ![t].pc = "check"]
            \/ /\ loops[t].tag = "line_track"
               /\ \E s \in LineStatuses :
                     LET it == LineIteration(s, loops[t].last_state)
                     IN  loops' = [loops EXCEPT ![t] =
                             Begin([@ EXCEPT !.last_state = it.last_state],
                                   it.ops, "check")]
            \/ /\ loops[t].tag = "obstacle_avoid"
               /\ \E d \in Distances :
                     loops' = [loops EXCEPT ![t] =
                         Begin(@, ObstacleIteration(d), "check")]
    /\ UNCHANGED <<flags, car, main, sig, sm, kb, nods>>
    /\ UNCHANGED <<budget, probe>>

LoopOp(t) ==
    /\ Alive
    /\ loops[t].pc = "ops"
    /\ car' = ApplyOp(car, loops[t].todo[loops[t].i])
    /\ loops' = [loops EXCEPT ![t] =
                    IF Advance(@).pc = "idle" THEN IdleLoop ELSE Advance(@)]
    /\ UNCHANGED <<flags, main, sig, sm, kb, nods>>
    /\ UNCHANGED <<budget, probe>>

AutonomousLoop(t) == LoopCheck(t) \/ LoopBody(t) \/ LoopOp(t)

\* ------------------------------------------------------------ wake-up nod
CanNod == \E n \in Nods : nods[n].pc = "idle"

StartNod ==
    LET n == CHOOSE n \in Nods :
                 nods[n].pc = "idle" /\ \A u \in Nods : u < n => nods[u].pc # "idle"
    IN  [nods EXCEPT ![n] = Begin(@, nod, "idle")]

NodOp(n) ==
    /\ Alive
    /\ nods[n].pc = "ops"
    /\ car' = ApplyOp(car, nods[n].todo[nods[n].i])
    /\ nods' = [nods EXCEPT ![n] = Advance(@)]
    /\ UNCHANGED <<flags, main, sig, sm, kb, loops>>
    /\ UNCHANGED <<budget, probe>>

\* ---------------------------------------------------------------- shutdown
\* main.shutdown after its two flag writes: the calls in its try block.
ShutdownSeq == <<Stop, SetDir(0), Pan(0), Tilt(0)>>

\* SIGTERM or SIGINT is delivered: the handler starts on the main thread.
\* A signal that arrives while the handler runs is merged with it.
Signal ==
    /\ Alive
    /\ sig.pc = "idle"
    /\ sig' = [sig EXCEPT !.pc = "running"]
    /\ UNCHANGED <<flags, car, main, sm, kb, loops, nods>>
    /\ Deliver

\* state.running = False
SigRunning ==
    /\ Alive
    /\ sig.pc = "running"
    /\ running' = FALSE
    /\ loops' = Mark(loops, autonomous_mode, FALSE)
    /\ sig' = [sig EXCEPT !.pc = "mode"]
    /\ UNCHANGED <<awake, listening, autonomous_mode, too_close, elapsed, lock,
                   car, main, sm, kb, nods>>
    /\ UNCHANGED <<budget, probe>>

\* A shutdown that also clears too_close: TooCloseWrittenByMonitor rejects it.
SigModeClearsTooClose ==
    /\ Alive
    /\ sig.pc = "mode"
    /\ autonomous_mode' = NONE
    /\ too_close' = FALSE
    /\ loops' = Mark(loops, NONE, running)
    /\ sig' = Begin(sig, ShutdownSeq, "idle")
    /\ UNCHANGED <<running, awake, listening, elapsed, lock,
                   car, main, sm, kb, nods>>
    /\ UNCHANGED <<budget, probe>>

\* state.autonomous_mode = None
SigMode ==
    /\ Alive
    /\ sig.pc = "mode"
    /\ autonomous_mode' = NONE
    /\ loops' = Mark(loops, NONE, running)
    /\ sig' = Begin(sig, ShutdownSeq, "idle")
    /\ UNCHANGED <<running, awake, listening, too_close, elapsed, lock,
                   car, main, sm, kb, nods>>
    /\ UNCHANGED <<budget, probe>>

SigOp ==
    /\ Alive
    /\ sig.pc = "ops"
    /\ car' = ApplyOp(car, sig.todo[sig.i])
    /\ sig' = Advance(sig)
    /\ UNCHANGED <<flags, main, sm, kb, loops, nods>>
    /\ UNCHANGED <<budget, probe>>

SignalHandler == Signal \/ SigRunning \/ SigMode \/ SigOp

\* ------------------------------------------------------- keyboard_control.py
\* _tty_listener: `while state.running:` and _read_key().
KbLoop ==
    /\ Alive
    /\ kb.pc = "loop"
    /\ IF running
       THEN \E key \in KeyPresses :
               /\ kb' = IF key \in {"q", "ESC"} THEN [kb EXCEPT !.pc = "quit"]
                        ELSE IF key = "?" \/ key \notin DOMAIN KEY_MAP THEN kb
                        ELSE [kb EXCEPT !.pc = "dispatch", !.key = key]
               /\ Deliver
       ELSE /\ kb' = [kb EXCEPT !.pc = "done"]
            /\ UNCHANGED <<budget, probe>>
    /\ UNCHANGED <<flags, car, main, sig, sm, loops, nods>>

\* state.running = False
KbQuit ==
    /\ Alive
    /\ kb.pc = "quit"
    /\ running' = FALSE
    /\ loops' = Mark(loops, autonomous_mode, FALSE)
    /\ kb' = [kb EXCEPT !.pc = "kill"]
    /\ UNCHANGED <<awake, listening, autonomous_mode, too_close, elapsed, lock,
                   car, main, sig, sm, nods>>
    /\ UNCHANGED <<budget, probe>>

\* os.kill(os.getpid(), SIGTERM); break
KbKill ==
    /\ Alive
    /\ kb.pc = "kill"
    /\ kb' = [kb EXCEPT !.pc = "done"]
    /\ sig' = IF sig.pc = "idle" THEN [sig EXCEPT !.pc = "running"] ELSE sig
    /\ UNCHANGED <<flags, car, main, sm, loops, nods>>
    /\ UNCHANGED <<budget, probe>>

\* dispatch_action(action_name, label)
KbDispatch ==
    /\ Alive
    /\ kb.pc = "dispatch"
    /\ LET r == dispatch_action(KEY_MAP[kb.key])
           back == [kb EXCEPT !.pc = "loop", !.key = ""]
       IN  CASE r.kind = "mode_line" ->
                  /\ lock = "free" /\ CanStart
                  /\ autonomous_mode' = "line_track"
                  /\ loops' = StartLoop("line_track")
                  /\ kb' = back
             [] r.kind = "mode_obstacle" ->
                  /\ lock = "free" /\ CanStart
                  /\ autonomous_mode' = "obstacle_avoid"
                  /\ loops' = StartLoop("obstacle_avoid")
                  /\ kb' = back
             [] r.kind = "cancel" ->
                  /\ lock = "free"
                  /\ autonomous_mode' = NONE
                  /\ loops' = Mark(loops, NONE, running)
                  /\ kb' = Begin(back, <<Stop, SetDir(0)>>, "loop")
             [] r.kind = "action" ->
                  /\ kb' = Begin(back, Script(r.f), "loop")
                  /\ UNCHANGED <<autonomous_mode, loops>>
             [] OTHER ->
                  /\ kb' = back
                  /\ UNCHANGED <<autonomous_mode, loops>>
    /\ UNCHANGED <<running, awake, listening, too_close, elapsed, lock,
                   car, main, sig, sm, nods>>
    /\ UNCHANGED <<budget, probe>>

KbOp ==
    /\ Alive
    /\ kb.pc = "ops"
    /\ car' = ApplyOp(car, kb.todo[kb.i])
    /\ kb' = Advance(kb)
    /\ UNCHANGED <<flags, main, sig, sm, loops, nods>>
    /\ UNCHANGED <<budget, probe>>

Keyboard == KbLoop \/ KbQuit \/ KbKill \/ KbDispatch \/ KbOp

\* ------------------------------------------------------------------ main()
\* The main thread runs only while the signal handler is not running on it.
MainRuns == Alive /\ sig.pc = "idle"

\* `while state.running:` and `if WAKE_ENABLED and not state.awake:`
MainLoop ==
    /\ MainRuns
    /\ main.pc = "loop"
    /\ main' = [main EXCEPT !.pc = IF ~running THEN "fin"
                                   ELSE IF ~awake THEN "wait"
                                   ELSE "listen_on"]
    /\ UNCHANGED <<flags, car, sig, sm, kb, loops, nods>>
    /\ UNCHANGED <<budget, probe>>

\* stt.wait_until_heard(WAKE_WORDS): raises, or returns; `if not state.running: break`
MainWait ==
    /\ MainRuns
    /\ main.pc = "wait"
    /\ \/ /\ main' = [main EXCEPT !.pc = "loop"]
          /\ UNCHANGED <<budget, probe>>
       \/ /\ CanNod
          /\ main' = [main EXCEPT !.pc = IF running THEN "wake" ELSE "fin"]
          /\ Deliver
    /\ UNCHANGED <<flags, car, sig, sm, kb, loops, nods>>

\* A wake-up that also sets running: RunningMonotonic rejects it.
MainWakeRestarts ==
    /\ MainRuns
    /\ main.pc = "wake"
    /\ lock = "free"
    /\ lock' = "main"
    /\ awake' = TRUE
    /\ running' = TRUE
    /\ main' = [main EXCEPT !.pc = "wake2"]
    /\ UNCHANGED <<listening, autonomous_mode, too_close, elapsed,
                   car, sig, sm, kb, loops, nods, budget, probe>>

\* with state.lock: state.awake = True ...
MainWake ==
    /\ MainRuns
    /\ main.pc = "wake"
    /\ lock = "free"
    /\ lock' = "main"
    /\ awake' = TRUE
    /\ main' = [main EXCEPT !.pc = "wake2"]
    /\ UNCHANGED <<running, listening, autonomous_mode, too_close, elapsed,
                   car, sig, sm, kb, loops, nods>>
    /\ UNCHANGED <<budget, probe>>

\* ... state.last_command_time = time.time(); then the nod thread is started.
MainWake2 ==
    /\ MainRuns
    /\ main.pc = "wake2"
    /\ elapsed' = 0
    /\ lock' = "free"
    /\ nods' = StartNod
    /\ main' = [main EXCEPT !.pc = "listen_on"]
    /\ UNCHANGED <<running, awake, listening, autonomous_mode, too_close,
                   car, sig, sm, kb, loops>>
    /\ UNCHANGED <<budget, probe>>

\* with state.lock: state.listening = True
MainListenOn ==
    /\ MainRuns
    /\ main.pc = "listen_on"
    /\ lock = "free"
    /\ listening' = TRUE
    /\ main' = [main EXCEPT !.pc = "cmd"]
    /\ UNCHANGED <<running, awake, autonomous_mode, too_close, elapsed, lock,
                   car, sig, sm, kb, loops, nods>>
    /\ UNCHANGED <<budget, probe>>

\* A timeout test that fires at the limit: TimeoutSleepsOnce rejects it.
TimedOutAtLimit(e) == e >= COMMAND_TIMEOUT_SECONDS

\* `if elapsed > COMMAND_TIMEOUT_SECONDS:`
TimedOut(e) == e > COMMAND_TIMEOUT_SECONDS

\* `while state.running and state.awake:` and the timeout test.
MainCmd ==
    /\ MainRuns
    /\ main.pc = "cmd"
    /\ main' = [main EXCEPT !.pc = IF ~(running /\ awake) THEN "listen_off"
                                   ELSE IF TimedOut(elapsed) THEN "timeout"
                                   ELSE "listen",
                            !.handled = TRUE, !.text = <<>>]
    /\ UNCHANGED <<flags, car, sig, sm, kb, loops, nods>>
    /\ UNCHANGED <<budget, probe>>

\* Command timeout: with state.lock: state.awake = False ...
MainTimeout ==
    /\ MainRuns
    /\ main.pc = "timeout"
    /\ lock = "free"
    /\ lock' = "main"
    /\ awake' = FALSE
    /\ main' = [main EXCEPT !.pc = "timeout2"]
    /\ UNCHANGED <<running, listening, autonomous_mode, too_close, elapsed,
                   car, sig, sm, kb, loops, nods>>
    /\ UNCHANGED <<budget, probe>>

\* ... state.autonomous_mode = None; then reset_position(car); break
MainTimeout2 ==
    /\ MainRuns
    /\ main.pc = "timeout2"
    /\ autonomous_mode' = NONE
    /\ loops' = Mark(loops, NONE, running)
    /\ lock' = "free"
    /\ main' = Begin(main, reset_position, "listen_off")
    /\ UNCHANGED <<running, awake, listening, too_close, elapsed,
                   car, sig, sm, kb, nods>>
    /\ UNCHANGED <<budget, probe>>

\* A dispatch that stops the robot on a text it does not understand:
\* UnhandledHasNoEffect rejects it.
DispatchStopsOnUnhandled(r) ==
    LET heard == [main EXCEPT !.text = r.text] IN
    CASE r.kind = "sleep" ->
           /\ main' = Begin(heard, reset_position, "sleep")
           /\ UNCHANGED <<autonomous_mode, loops>>
      [] r.kind \in {"cancel", "stop", "unhandled"} ->
           /\ autonomous_mode' = NONE
           /\ loops' = Mark(loops, NONE, running)
           /\ main' = Begin([heard EXCEPT !.handled = r.kind # "unhandled"],
                            <<Stop, SetDir(0)>>, "cmd")
      [] r.kind = "mode_line" ->
           /\ CanStart
           /\ autonomous_mode' = "line_track"
           /\ loops' = StartLoop("line_track")
           /\ main' = [heard EXCEPT !.pc = "cmd"]
      [] r.kind = "mode_obstacle" ->
           /\ CanStart
           /\ autonomous_mode' = "obstacle_avoid"
           /\ loops' = StartLoop("obstacle_avoid")
           /\ main' = [heard EXCEPT !.pc = "cmd"]
      [] r.kind = "action" ->
           /\ main' = Begin(heard, Script(r.f), "cmd")
           /\ UNCHANGED <<autonomous_mode, loops>>
      [] OTHER ->
           /\ main' = [heard EXCEPT !.pc = "cmd"]
           /\ UNCHANGED <<autonomous_mode, loops>>

\* process_command_keyword on a text that is not empty and holds no wake
\* word: its first effect on the shared state; `handled` is its return value
\* (main's `if not handled:` only speaks), r.text the text.
Dispatch(r) ==
    LET heard == [main EXCEPT !.text = r.text] IN
    CASE r.kind = "sleep" ->
           /\ main' = Begin(heard, reset_position, "sleep")
           /\ UNCHANGED <<autonomous_mode, loops>>
      [] r.kind \in {"cancel", "stop"} ->
           /\ autonomous_mode' = NONE
           /\ loops' = Mark(loops, NONE, running)
           /\ main' = Begin(heard, <<Stop, SetDir(0)>>, "cmd")
      [] r.kind = "mode_line" ->
           /\ CanStart
           /\ autonomous_mode' = "line_track"
           /\ loops' = StartLoop("line_track")
           /\ main' = [heard EXCEPT !.pc = "cmd"]
      [] r.kind = "mode_obstacle" ->
           /\ CanStart
           /\ autonomous_mode' = "obstacle_avoid"
           /\ loops' = StartLoop("obstacle_avoid")
           /\ main' = [heard EXCEPT !.pc = "cmd"]
      [] r.kind = "action" ->
           /\ main' = Begin(heard, Script(r.f), "cmd")
           /\ UNCHANGED <<autonomous_mode, loops>>
      [] OTHER ->
           /\ main' = [heard EXCEPT !.pc = "cmd", !.handled = r.kind # "unhandled"]
           /\ UNCHANGED <<autonomous_mode, loops>>

\* stt.listen(): raises or returns an empty text (continue), or returns a
\* text: state.last_command_time = time.time(), then the wake-word test and
\* process_command.
MainListen ==
    /\ MainRuns
    /\ main.pc = "listen"
    /\ lock = "free"
    /\ \/ /\ main' = [main EXCEPT !.pc = "cmd"]
          /\ UNCHANGED <<elapsed, autonomous_mode, loops, budget, probe>>
       \/ \E u \in Utterances :
             /\ Strip(u) # <<>>
             /\ Deliver
             /\ elapsed' = 0
             /\ IF IsWake[u]
                THEN /\ main' = [main EXCEPT !.pc = "cmd", !.text = u]
                     /\ UNCHANGED <<autonomous_mode, loops>>
                ELSE Dispatch(Resolved[u] @@ [text |-> u])
    /\ UNCHANGED <<running, awake, listening, too_close, lock, car, sig, sm, kb, nods>>

\* "sleep": after reset_position(car), with state.lock: state.awake = False ...
MainSleep ==
    /\ MainRuns
    /\ main.pc = "sleep"
    /\ lock = "free"
    /\ lock' = "main"
    /\ awake' = FALSE
    /\ main' = [main EXCEPT !.pc = "sleep2"]
    /\ UNCHANGED <<running, listening, autonomous_mode, too_close, elapsed,
                   car, sig, sm, kb, loops, nods>>
    /\ UNCHANGED <<budget, probe>>

\* A sleep command that leaves the mode: SleepClearsMode rejects it.
MainSleep2KeepsMode ==
    /\ MainRuns
    /\ main.pc = "sleep2"
    /\ lock' = "free"
    /\ main' = [main EXCEPT !.pc = "cmd"]
    /\ UNCHANGED <<running, awake, listening, autonomous_mode, too_close, elapsed,
                   car, sig, sm, kb, loops, nods, budget, probe>>

\* ... state.autonomous_mode = None; return True
MainSleep2 ==
    /\ MainRuns
    /\ main.pc = "sleep2"
    /\ autonomous_mode' = NONE
    /\ loops' = Mark(loops, NONE, running)
    /\ lock' = "free"
    /\ main' = [main EXCEPT !.pc = "cmd"]
    /\ UNCHANGED <<running, awake, listening, too_close, elapsed,
                   car, sig, sm, kb, nods>>
    /\ UNCHANGED <<budget, probe>>

\* with state.lock: state.listening = False
MainListenOff ==
    /\ MainRuns
    /\ main.pc = "listen_off"
    /\ lock = "free"
    /\ listening' = FALSE
    /\ main' = [main EXCEPT !.pc = "loop"]
    /\ UNCHANGED <<running, awake, autonomous_mode, too_close, elapsed, lock,
                   car, sig, sm, kb, loops, nods>>
    /\ UNCHANGED <<budget, probe>>

\* finally: shutdown(): state.running = False
MainFin ==
    /\ MainRuns
    /\ main.pc = "fin"
    /\ running' = FALSE
    /\ loops' = Mark(loops, autonomous_mode, FALSE)
    /\ main' = [main EXCEPT !.pc = "fin2"]
    /\ UNCHANGED <<awake, listening, autonomous_mode, too_close, elapsed, lock,
                   car, sig, sm, kb, nods>>
    /\ UNCHANGED <<budget, probe>>

\* state.autonomous_mode = None, then the calls of the try block; main() returns.
MainFin2 ==
    /\ MainRuns
    /\ main.pc = "fin2"
    /\ autonomous_mode' = NONE
    /\ loops' = Mark(loops, NONE, running)
    /\ main' = Begin(main, ShutdownSeq, "exit")
    /\ UNCHANGED <<running, awake, listening, too_close, elapsed, lock,
                   car, sig, sm, kb, nods>>
    /\ UNCHANGED <<budget, probe>>

MainOp ==
    /\ MainRuns
    /\ main.pc = "ops"
    /\ car' = ApplyOp(car, main.todo[main.i])
    /\ main' = Advance(main)
    /\ UNCHANGED <<flags, sig, sm, kb, loops, nods>>
    /\ UNCHANGED <<budget, probe>>

Main ==
    \/ MainLoop \/ MainWait \/ MainWake \/ MainWake2 \/ MainListenOn \/ MainCmd
    \/ MainTimeout \/ MainTimeout2 \/ MainListen \/ MainSleep \/ MainSleep2
    \/ MainListenOff \/ MainFin \/ MainFin2 \/ MainOp

\* ------------------------------------------------------------ specification
Next ==
    \/ Tick
    \/ Main
    \/ SignalHandler
    \/ SafetyMonitor
    \/ Keyboard
    \/ \E t \in Loops : AutonomousLoop(t)
    \/ \E n \in Nods : NodOp(n)

Spec == Init /\ [][Next]_vars

\* The robot left asleep with nothing near it and driven from the keyboard
\* alone: main() stays blocked in stt.wait_until_heard.
InitKeys == Constructed /\ budget = MaxKeys /\ probe = NoProbe

NextKeys ==
    \/ Keyboard
    \/ SignalHandler
    \/ \E t \in Loops : AutonomousLoop(t)

SpecKeys == InitKeys /\ [][NextKeys]_vars

\* The robot with nothing near it and driven by voice alone: the keyboard
\* listener stays blocked in its key read.
InitVoice == Constructed /\ budget = MaxHeard /\ probe = NoProbe

NextVoice ==
    \/ Tick
    \/ Main
    \/ SignalHandler
    \/ \E t \in Loops : AutonomousLoop(t)
    \/ \E n \in Nods : NodOp(n)

SpecVoice == InitVoice /\ [][NextVoice]_vars

\* The threads of SpecKeys are scheduled again and again.
FairKeys ==
    /\ SpecKeys
    /\ WF_vars(Keyboard)
    /\ WF_vars(SignalHandler)
    /\ \A t \in Loops : WF_vars(AutonomousLoop(t))

\* The threads of SpecVoice are scheduled again and again, over runs of
\* MaxHeardFair stimuli (a wake word and a command; the timeout needs none).
InitFair == Constructed /\ budget = MaxHeardFair /\ probe = NoProbe

FairVoice ==
    /\ InitFair
    /\ [][NextVoice]_vars
    /\ WF_vars(Main)
    /\ WF_vars(SignalHandler)
    /\ \A t \in Loops : WF_vars(AutonomousLoop(t))

\* ------------------------------------------------------------- properties
\* The threads that issue actuator sequences: safety monitor, keyboard action,
\* voice action, autonomous sub-loops, wake-up nods.
Sources == <<sm, kb, main>> \o [t \in Loops |-> loops[t]] \o [n \in Nods |-> nods[n]]

\* The thread has issued the first operation of a sequence and not yet the last.
MidSequence(th) == th.pc = "ops" /\ th.i > 1

\* Source k applies an operation in this step.
Issues(k) == Sources[k].pc = "ops" /\ Sources'[k] # Sources[k]

\* A sub-loop inside its while loop, and one past it (car.stop, set_dir 0).
InBody(l) == l.pc \in {"check", "check2"} \/ (l.pc = "ops" /\ l.ret = "check")
Exiting(l) == l.pc = "ops" /\ l.ret = "idle"

\* C1: once a source has issued the first operation of a sequence, no
\* operation of another source is applied before that sequence's last one.
SequencesAtomic ==
    [][\A a, b \in DOMAIN Sources :
          (a # b /\ Issues(a)) => ~MidSequence(Sources[b])]_vars

\* The emergency back-off between its backward drive and its closing stop.
EmergencyBackOff == sm.pc = "ops" /\ sm.todo = EmergencySeq /\ sm.i = 3

\* C2: during the emergency back-off, a step of a sub-loop or of a keyboard
\* action leaves steering and motor as they are: its command is rejected.
EmergencyUnchallenged ==
    [][(EmergencyBackOff /\ (kb' # kb \/ loops' # loops))
          => (car'.dir = car.dir /\ car'.motor = car.motor)]_vars

\* C3: a monitor tick whose reading is valid (not negative) and below
\* TOO_CLOSE_DISTANCE starts the emergency sequence in that tick.
EmergencyOnEveryCloseReading ==
    [][(sm.pc = "branch" /\ sm'.pc # "branch"
            /\ sm.distance >= 0 /\ sm.distance < TOO_CLOSE_DISTANCE)
          => (sm'.pc = "ops" /\ sm'.todo = EmergencySeq)]_vars

\* C4: the command loop's test takes the sleep transition exactly when the
\* robot is running and awake and more than COMMAND_TIMEOUT_SECONDS have
\* passed since the last command (not at the limit itself); the transition
\* turns awake from true to false, so it cannot fire again before a new wake,
\* and ends with autonomous_mode None; awake is turned off by no other path
\* than this one and the sleep command.
TimeoutSleepsOnce ==
    [][/\ (main.pc = "cmd" /\ main'.pc # "cmd")
            => (main'.pc = "timeout"
                  <=> (running /\ awake /\ elapsed > COMMAND_TIMEOUT_SECONDS))
       /\ (main.pc = "timeout" /\ main'.pc # "timeout") => (awake /\ ~awake')
       /\ (main.pc = "timeout2" /\ main'.pc # "timeout2")
            => (~awake' /\ autonomous_mode' = NONE)
       /\ (awake /\ ~awake') => main.pc \in {"timeout", "sleep"}]_vars

\* The timeout fires while a mode is active: awake is off, the mode not yet.
TimeoutFiresInMode == main.pc = "timeout2" /\ ~awake /\ autonomous_mode # NONE

\* C5: initially, and in the state in which a sleep transition (timeout or
\* sleep command) releases the lock, awake is false and the mode is None.
SleepClearsMode ==
    /\ ~awake /\ autonomous_mode = NONE
    /\ [][(main.pc \in {"sleep2", "timeout2"} /\ main'.pc # main.pc)
            => (~awake' /\ autonomous_mode' = NONE /\ lock' = "free")]_vars

\* The sleep command has just completed while a sub-loop was still in its loop.
SleptWithLoopAlive ==
    /\ main.pc = "cmd" /\ ~awake /\ autonomous_mode = NONE /\ lock = "free"
    /\ \E t \in Loops : InBody(loops[t])

\* C6: when main() has returned after shutdown, steering is 0 and the motors
\* are stopped.
NeutralAtExit == main.pc = "exit" => (car.dir = 0 /\ car.motor = 0)

\* C7: with the mode at obstacle_avoid, a line-track loop that reaches its
\* loop test leaves its loop and an obstacle-avoid loop stays in its own: after
\* one test of each, only the obstacle-avoid loop still drives.
ModeExclusivity ==
    [][\A t \in Loops :
          (loops[t].pc = "check2" /\ loops'[t] # loops[t]
                /\ autonomous_mode = "obstacle_avoid")
             => IF loops[t].tag = "line_track"
                THEN Exiting(loops'[t])
                ELSE InBody(loops'[t])]_vars

\* LineTrack then ObstacleAvoid: the line-track loop is past its loop while
\* the obstacle-avoid loop drives.
LineTrackYields ==
    /\ autonomous_mode = "obstacle_avoid"
    /\ \E t, u \in Loops :
          /\ loops[t].tag = "line_track" /\ Exiting(loops[t])
          /\ loops[u].tag = "obstacle_avoid" /\ loops[u].pc = "ops" /\ InBody(loops[u])

\* C8: at most one sub-loop whose tag is the current mode is inside its loop.
OneLoopPerMode ==
    Cardinality({t \in Loops : InBody(loops[t]) /\ loops[t].tag = autonomous_mode}) <= 1

\* C9: a sub-loop whose exit condition has held since its start eventually
\* terminates.
StaleLoopsTerminate ==
    \A t \in Loops : loops[t].stale ~> (loops[t].pc = "idle")

\* C10: once running is false, no step makes it true.
RunningMonotonic == [][~running => ~running']_vars

\* running is false and the monitor and the keyboard loop have seen it.
ShutdownObserved == ~running /\ sm.pc = "done" /\ kb.pc = "done"

\* C11: autonomous_mode changes only in a step of the command dispatch of the
\* main thread (mode entry, cancel, stop), of the sleep command, of the
\* timeout, of shutdown, or of the keyboard dispatch; the safety monitor does
\* not move in such a step and no live sub-loop does.
ModeWrittenByCommands ==
    [][autonomous_mode' # autonomous_mode =>
          /\ sm' = sm
          /\ \A t \in Loops :
                loops[t].pc # "idle"
                   => loops'[t] = [loops[t] EXCEPT !.stale = loops'[t].stale]
          /\ \/ main.pc \in {"listen", "sleep2", "timeout2", "fin2"} /\ main' # main
             \/ kb.pc = "dispatch" /\ kb' # kb
             \/ sig.pc = "mode" /\ sig' # sig]_vars

\* The cliff back-off is about to issue its closing stop in line-track mode.
CliffBackOffInMode ==
    sm.pc = "ops" /\ sm.todo = CliffSeq /\ sm.i = 4 /\ autonomous_mode = "line_track"

\* C12: too_close changes only in a step of the safety monitor's distance
\* check; no other thread moves in that step.
TooCloseWrittenByMonitor ==
    [][too_close' # too_close =>
          /\ sm.pc \in {"branch", "clear"} /\ sm' # sm
          /\ main' = main /\ kb' = kb /\ sig' = sig /\ loops' = loops /\ nods' = nods]_vars

\* A keyboard action runs while too_close is set.
TooCloseDuringKeyAction == too_close /\ kb.pc = "ops"

\* ------------------------------------------------- functions under examination
\* Texts handed to the dispatchers: every keyword of the tables, alone and
\* inside a longer utterance.
Keywords ==
    {ACTIONS_DICT[k][1] : k \in 1..Len(ACTIONS_DICT)}
    \cup SLEEP_WORDS \cup CANCEL_MODE_WORDS \cup LINE_TRACK_WORDS \cup OBSTACLE_WORDS
    \cup HORN_WORDS \cup ENGINE_WORDS \cup STATUS_WORDS \cup HELP_WORDS \cup STOP_WORDS
    \cup {<<"h","e","l","l","o">>}

ProbeTexts ==
    {pre \o w \o suf :
        pre \in {<<>>, <<"p","l","e","a","s","e"," ">>},
        w \in Keywords,
        suf \in {<<>>, <<" ","n","o","w">>}}

KeywordProbes == {[fn |-> "keyword", text |-> t, done |-> FALSE, out |-> <<>>] : t \in ProbeTexts}

\* process_command_keyword(text, ...) is called on the text.
ResolveText ==
    /\ probe.fn = "keyword" /\ ~probe.done
    /\ probe' = [probe EXCEPT !.done = TRUE, !.out = process_command_keyword(probe.text)]
    /\ UNCHANGED <<flags, car, main, sig, sm, kb, loops, nods, budget>>

LineProbes ==
    {[fn |-> "line", status |-> s, last_state |-> l, done |-> FALSE, out |-> <<>>] :
        s \in LineStatuses, l \in {"stop", "forward", "left", "right"}}

\* One iteration of line_tracking_loop on the status, with the remembered
\* classification.
LineTick ==
    /\ probe.fn = "line" /\ ~probe.done
    /\ probe' = [probe EXCEPT !.done = TRUE,
                              !.out = LineIteration(probe.status, probe.last_state)]
    /\ UNCHANGED <<flags, car, main, sig, sm, kb, loops, nods, budget>>

\* Iterations patrol's scan can make before its deadline: duration 5.0 s,
\* 0.1 s slept per iteration.
MaxSweepTicks == 50

SweepProbes ==
    {[fn |-> "sweep", n |-> n, done |-> FALSE, out |-> <<>>] : n \in 0..MaxSweepTicks}

\* patrol's scan loop, run for n iterations.
SweepScan ==
    /\ probe.fn = "sweep" /\ ~probe.done
    /\ probe' = [probe EXCEPT !.done = TRUE, !.out = Sweep(0, 1, probe.n)]
    /\ UNCHANGED <<flags, car, main, sig, sm, kb, loops, nods, budget>>

\* What car.ultrasonic.read() is formatted to in the annotation: 0 when the
\* read raises, else the reading rounded to two places.
DistTexts == {<<"0">>, <<"5",".","0">>, <<"1","2",".","3","4">>}

\* Responses of the chat collaborator.
Replies ==
    {<<"I"," ","c","a","n"," ","d","a","n","c","e">>,
     <<"S","u","r","e","!","\n","A","C","T","I","O","N","S",":"," ","f","o","r","w","a","r","d",","," ","T","u","r","n","_","L","e","f","t","\n","H","e","r","e"," ","w","e"," ","g","o">>,
     <<"a","c","t","i","o","n","s",":"," ","f","l","y",",","n","o","d"," ",","," ","s","t","o","p">>,
     <<"L","e","t"," ","m","e"," ","A","C","T","I","O","N","S",":"," ","f","o","r","w","a","r","d","\n","\n","A","C","T","I","O","N","S",":">>}

\* What llm.chat does: it raises, or it responds; `broken` holds the action
\* functions that raise when called.
Raises == [raises |-> TRUE, response |-> <<>>, broken |-> {}]
ChatOutcomes == {Raises} \cup {[raises |-> FALSE, response |-> r, broken |-> {}] : r \in Replies}

\* The texts heard while the chat collaborator is in use.
LlmTexts ==
    {pre \o w : pre \in {<<>>, <<"p","l","e","a","s","e"," ">>}, w \in Keywords}

\* Successive commands of one session: the same text heard Len(chats) times,
\* chats[k] being what the k-th chat call does; and single commands during
\* which some action functions raise.
LlmProbes ==
    {[fn |-> "llm", text |-> t, llm |-> l, too_close |-> c[1], dist |-> c[2],
      chats |-> ch, done |-> FALSE, out |-> <<>>] :
        t \in LlmTexts, l \in BOOLEAN,
        c \in {<<FALSE, <<>>>>} \cup {<<TRUE, d>> : d \in DistTexts},
        ch \in {<<a>> : a \in ChatOutcomes} \cup {<<Raises, a>> : a \in ChatOutcomes}}
    \cup
    {[fn |-> "llm", text |-> <<"h","e","l","l","o">>, llm |-> TRUE, too_close |-> FALSE,
      dist |-> <<>>, chats |-> <<[raises |-> FALSE, response |-> r, broken |-> b]>>,
      done |-> FALSE, out |-> <<>>] :
        r \in Replies, b \in {{"forward"}, {"nod", "stop"}}}

\* process_command_llm(text, car, tts, llm, music) is called on the next command.
LlmCommand ==
    /\ probe.fn = "llm" /\ ~probe.done
    /\ LET k == Len(probe.out) + 1
           r == process_command_llm(probe.text, probe.llm, probe.too_close,
                                    probe.dist, probe.chats[k])
       IN  probe' = [probe EXCEPT !.out = Append(@, r),
                                  !.done = (k = Len(probe.chats))]
    /\ UNCHANGED <<flags, car, main, sig, sm, kb, loops, nods, budget>>

\* shutdown's try block: `raises` is the position of the call that raises,
\* 0 when none does.
ShutdownProbes ==
    {[fn |-> "shutdown", raises |-> k, done |-> FALSE, out |-> <<>>] :
        k \in 0..Len(ShutdownSeq)}

\* shutdown's try block: the calls made, the one that raises included; the
\* `except Exception: pass` ends the block there.
ShutdownCalls ==
    /\ probe.fn = "shutdown" /\ ~probe.done
    /\ probe' = [probe EXCEPT !.done = TRUE,
                              !.out = IF probe.raises = 0 THEN ShutdownSeq
                                      ELSE SubSeq(ShutdownSeq, 1, probe.raises)]
    /\ UNCHANGED <<flags, car, main, sig, sm, kb, loops, nods, budget>>

\* Readings of the ultrasonic sensor around the thresholds.
ObstacleProbes ==
    {[fn |-> "obstacle", distance |-> d, done |-> FALSE, out |-> <<>>] :
        d \in (-2)..(SAFE_DISTANCE + 2)}

\* One iteration of obstacle_avoid_loop on the reading.
ObstacleTick ==
    /\ probe.fn = "obstacle" /\ ~probe.done
    /\ probe' = [probe EXCEPT !.done = TRUE, !.out = ObstacleIteration(probe.distance)]
    /\ UNCHANGED <<flags, car, main, sig, sm, kb, loops, nods, budget>>

\* The functions of the action table.
ScriptProbes ==
    {[fn |-> "script", f |-> ACTIONS_DICT[k][2], done |-> FALSE, out |-> <<>>] :
        k \in 1..Len(ACTIONS_DICT)}

\* The actuator after the operations are applied in order.
RECURSIVE RunOps(_, _)
RunOps(c, ops) == IF ops = <<>> THEN c ELSE RunOps(ApplyOp(c, Head(ops)), Tail(ops))

\* ACTIONS_DICT[name](car) runs to its end on the actuator at rest.
RunScript ==
    /\ probe.fn = "script" /\ ~probe.done
    /\ probe' = [probe EXCEPT !.done = TRUE, !.out = RunOps(car, Script(probe.f))]
    /\ UNCHANGED <<flags, car, main, sig, sm, kb, loops, nods, budget>>

\* process_command = process_command_llm if (LLM_ENABLED and llm) else
\* process_command_keyword
Processor(enabled, llm) ==
    IF enabled /\ llm THEN "process_command_llm" ELSE "process_command_keyword"

\* Positional parameters of the command processors: (text, car, tts, music)
\* and (text, car, tts, llm, music).
Parameters(p) == IF p = "process_command_llm" THEN 5 ELSE 4

\* The configurations main() runs in (llm is set only when LLM_ENABLED and an
\* API key is there, and init_llm may still return None), with a text heard
\* while awake that holds no wake word.
CommandProbes ==
    {[fn |-> "command", enabled |-> c[1], llm |-> c[2], text |-> t,
      done |-> FALSE, out |-> <<>>] :
        c \in {<<FALSE, FALSE>>, <<TRUE, FALSE>>, <<TRUE, TRUE>>}, t \in LlmTexts}

\* main()'s call of the chosen processor: four arguments when LLM_ENABLED is
\* False, five otherwise.  A call whose arguments do not fit the processor
\* raises TypeError; main()'s try has `except KeyboardInterrupt` only, so
\* the error leaves the loop through `finally: shutdown()`.
ProcessCommand ==
    /\ probe.fn = "command" /\ ~probe.done
    /\ LET p == Processor(probe.enabled, probe.llm)
           args == IF ~probe.enabled THEN 4 ELSE 5
       IN  probe' = [probe EXCEPT
                        !.done = TRUE,
                        !.out = IF args # Parameters(p)
                                THEN [processor |-> p, raised |-> TRUE, shutdown |-> TRUE,
                                      kind |-> "none"]
                                ELSE [processor |-> p, raised |-> FALSE, shutdown |-> FALSE,
                                      kind |-> IF p = "process_command_keyword"
                                               THEN process_command_keyword(probe.text).kind
                                               ELSE "chat"]]
    /\ UNCHANGED <<flags, car, main, sig, sm, kb, loops, nods, budget>>

Probes ==
    KeywordProbes \cup LineProbes \cup SweepProbes \cup LlmProbes \cup ShutdownProbes
    \cup ObstacleProbes \cup ScriptProbes \cup CommandProbes

InitFunctions == Constructed /\ budget = 0 /\ probe \in Probes

NextFunctions ==
    \/ ResolveText
    \/ LineTick
    \/ SweepScan
    \/ LlmCommand
    \/ ShutdownCalls
    \/ ObstacleTick
    \/ RunScript
    \/ ProcessCommand

SpecFunctions == InitFunctions /\ [][NextFunctions]_vars

\* The dispatcher finds a system command in the normalized text.
SystemCommand(text) ==
    \/ AnyIn(SLEEP_WORDS \cup CANCEL_MODE_WORDS \cup LINE_TRACK_WORDS \cup OBSTACLE_WORDS, text)
    \/ AnyIn(HORN_WORDS \cup ENGINE_WORDS \cup STATUS_WORDS \cup HELP_WORDS, text)
    \/ text \in STOP_WORDS

\* The keywords of the action table found in the text.
KeysIn(text) == {k \in 1..Len(ACTIONS_DICT) : Contains(ACTIONS_DICT[k][1], text)}

\* C13: a normalized text in which no system command is found, which is not
\* itself a key of the action table and which holds such a key, resolves to
\* one action: the one bound to a key found in the text than which no key
\* found in the text is longer.
LongestKeywordWins ==
    (probe.fn = "keyword" /\ probe.done) =>
        LET text == Strip(Lower(probe.text))
        IN  (~SystemCommand(text) /\ DictIndex(text) = 0 /\ KeysIn(text) # {}) =>
               /\ probe.out.kind = "action"
               /\ \E k \in KeysIn(text) :
                     /\ ACTIONS_DICT[k][2] = probe.out.f
                     /\ \A j \in KeysIn(text) :
                           Len(ACTIONS_DICT[j][1]) <= Len(ACTIONS_DICT[k][1])

\* "please turn left now" has run the action bound to "turn left".
TurnLeftResolved ==
    /\ probe.fn = "keyword" /\ probe.done
    /\ probe.text = <<"p","l","e","a","s","e"," ","t","u","r","n"," ","l","e","f","t"," ","n","o","w">>
    /\ probe.out = [kind |-> "action", f |-> "turn_left"]

\* The steering angles and the motor speeds a sequence of operations commands.
Steers(ops) == {ops[k].v : k \in {j \in 1..Len(ops) : ops[j].a = "dir"}}
Drives(ops) == {ops[k].v : k \in {j \in 1..Len(ops) : ops[j].a = "motor"}}

\* C14: on a Lost tick the line-track loop never drives forward; when the last
\* classification other than Lost is Right it drives backward and steers to
\* the side opposite to the one it steers to on a Right tick, and likewise
\* for Left.
LostRecoveryReverses ==
    (probe.fn = "line" /\ probe.done /\ probe.out.gm_state = "stop") =>
        /\ \A v \in Drives(probe.out.ops) : v <= 0
        /\ \A side \in {"left", "right"} :
              probe.out.last_state = side =>
                 /\ Drives(probe.out.ops) # {} /\ \A v \in Drives(probe.out.ops) : v < 0
                 /\ Steers(probe.out.ops) # {}
                 /\ \A a \in Steers(probe.out.ops) :
                       \A b \in Steers(LineIteration(IF side = "right" THEN <<1, 0, 0>>
                                                     ELSE <<0, 0, 1>>, "stop").ops) :
                          a * b < 0

\* The line is lost after a Right tick: the loop backs up steering to 30.
LostAfterRight ==
    /\ probe.fn = "line" /\ probe.done
    /\ probe.status = <<0, 0, 0>> /\ probe.last_state = "right"
    /\ probe.out.ops = <<SetDir(30), Backward(10)>>

\* C15: every pan angle the patrol scan commands lies within [-45, 45].
SweepWithinBounds ==
    (probe.fn = "sweep" /\ probe.done) =>
        \A k \in 1..Len(probe.out) : probe.out[k].v >= -45 /\ probe.out[k].v <= 45

\* C16: while awake is false a key press taken by the keyboard loop is
\* dropped: it starts no actuator sequence, writes no autonomous mode and
\* starts no mode loop.
AsleepKeysDropped ==
    [][(~awake /\ kb.pc = "dispatch" /\ kb' # kb) =>
          /\ kb'.pc = "loop"
          /\ autonomous_mode' = autonomous_mode
          /\ loops' = loops]_vars

\* C17: a text resolves to a system command (sleep, stop, cancel-mode,
\* mode-entry, horn or engine sound) only when the normalized text is itself
\* a member of that command's keyword set.
SystemCommandsExact ==
    (probe.fn = "keyword" /\ probe.done) =>
        LET text == Strip(Lower(probe.text))
            kind == probe.out.kind
        IN  /\ kind = "sleep" => text \in SLEEP_WORDS
            /\ kind = "stop" => text \in STOP_WORDS
            /\ kind = "cancel" => text \in CANCEL_MODE_WORDS
            /\ kind = "mode_line" => text \in LINE_TRACK_WORDS
            /\ kind = "mode_obstacle" => text \in OBSTACLE_WORDS
            /\ kind = "sound" => text \in HORN_WORDS \cup ENGINE_WORDS

\* C18: a command whose chat call raises is resolved as process_command_keyword
\* resolves the user's normalized text, it does not put the robot to sleep,
\* and the next command is sent to the chat collaborator again.
ChatFailureFallsBack ==
    probe.fn = "llm" =>
        \A k \in 1..Len(probe.out) :
            (probe.out[k].asked /\ probe.chats[k].raises) =>
                /\ probe.out[k].kind = process_command_keyword(probe.text).kind
                /\ probe.out[k].f = process_command_keyword(probe.text).f
                /\ probe.out[k].kind # "sleep"
                /\ k < Len(probe.out) => probe.out[k + 1].asked

\* The chat call raised while the monitor reported an obstacle: the annotated
\* text resolved to the action of the user's text, and the next command was
\* sent to the chat collaborator.
FallbackThenAsked ==
    /\ probe.fn = "llm" /\ probe.done /\ probe.too_close
    /\ probe.text = <<"p","l","e","a","s","e"," ","t","u","r","n"," ","l","e","f","t">>
    /\ Len(probe.out) = 2
    /\ probe.chats[1].raises /\ ~probe.chats[2].raises
    /\ probe.out[1].asked /\ probe.out[1].kind = "action" /\ probe.out[1].f = "turn_left"
    /\ probe.out[2].asked /\ probe.out[2].kind = "chat"

\* C19: the safety monitor ends only when running is false; a distance read
\* that raises commands nothing and writes no flag, and leaves the cliff check
\* of the same iteration pending; the cliff check either starts the cliff
\* back-off or, on no cliff or a failed grayscale read, commands nothing and
\* goes on to the next iteration.
MonitorSurvivesReadFailures ==
    [][/\ (sm.pc # "done" /\ sm'.pc = "done") => ~running
       /\ (~sm.read_failed /\ sm'.read_failed) =>
             /\ sm.pc = "loop" /\ sm'.pc = "cliff" /\ sm'.todo = <<>>
             /\ too_close' = too_close
             /\ car' = car
       /\ sm.read_failed => sm.pc = "cliff"
       /\ (sm.pc = "cliff" /\ sm' # sm) =>
             \/ sm'.pc = "loop" /\ sm'.todo = <<>>
             \/ sm'.pc = "ops" /\ sm'.todo = CliffSeq /\ sm'.ret = "loop"]_vars

\* The distance read raises after an emergency: too_close stays set and the
\* cliff check of the iteration is about to run.
ReadFailedCliffPending ==
    sm.read_failed /\ sm.pc = "cliff" /\ too_close /\ running

\* C20: shutdown attempts each of its neutralization calls (motor stop,
\* steering to 0, camera pan to 0, camera tilt to 0) whichever call raises.
NeutralizationComplete ==
    (probe.fn = "shutdown" /\ probe.done) => probe.out = ShutdownSeq

\* C21: no thread writes running, awake, listening, autonomous_mode,
\* too_close or last_command_time while another thread holds the state lock
\* (the signal handler runs on the main thread).
WritesHoldLock ==
    [][(/\ lock # "free"
        /\ \/ <<running, awake, listening, autonomous_mode, too_close>>'
                 # <<running, awake, listening, autonomous_mode, too_close>>
           \/ elapsed' < elapsed)
          => (lock = "main" /\ (main' # main \/ sig' # sig))]_vars

\* C22: a keyboard command dispatched while the robot is awake sets
\* last_command_time to the current time.
KeyRefreshesCommandTime ==
    [][(awake /\ kb.pc = "dispatch" /\ kb' # kb) => elapsed' = 0]_vars

\* C23: a monitor tick whose reading d is valid (not negative) takes exactly
\* one branch: the emergency sequence when d < TOO_CLOSE_DISTANCE, the
\* steer-away sequence when TOO_CLOSE_DISTANCE <= d < DANGER_DISTANCE in
\* obstacle-avoid mode, no actuator command otherwise.
MonitorBranchPartition ==
    [][(sm.pc = "branch" /\ sm'.pc # "branch" /\ sm.distance >= 0) =>
          IF sm.distance < TOO_CLOSE_DISTANCE
          THEN sm'.pc = "ops" /\ sm'.todo = EmergencySeq
          ELSE IF sm.distance < DANGER_DISTANCE /\ autonomous_mode = "obstacle_avoid"
          THEN sm'.pc = "ops" /\ sm'.todo = SteerAwaySeq
          ELSE sm'.todo = <<>> /\ car' = car]_vars

\* C24: a monitor tick whose cliff check finds a cliff starts the back-off
\* sequence (stop, steering 0, backward, stop) whatever the mode, awake and
\* the distance check were; the monitor issues the sequence in order and its
\* last command leaves the motors stopped.
CliffAlwaysBacksOff ==
    [][/\ (sm.pc = "cliff" /\ sm' # sm /\ budget' # budget) =>
             /\ sm'.pc = "ops" /\ sm'.todo = CliffSeq /\ sm'.i = 1
             /\ CliffSeq = <<Stop, SetDir(0), Backward(MOVE_SPEED), Stop>>
       /\ (sm.pc = "ops" /\ sm.todo = CliffSeq /\ sm' # sm) =>
             /\ car' = ApplyOp(car, CliffSeq[sm.i])
             /\ IF sm.i < Len(CliffSeq)
                THEN sm'.pc = "ops" /\ sm'.todo = CliffSeq /\ sm'.i = sm.i + 1
                ELSE sm'.pc = "loop" /\ car'.motor = 0]_vars

\* The cliff back-off is at its last command while the robot is asleep and
\* the distance check has reported an obstacle.
CliffBackOffAsleepTooClose ==
    sm.pc = "ops" /\ sm.todo = CliffSeq /\ sm.i = Len(CliffSeq) /\ ~awake /\ too_close

\* C25: an obstacle-avoid iteration on a reading d issues no command when
\* d < 0; steering 0 and forward when d >= SAFE_DISTANCE; a non-zero steering
\* and forward when DANGER_DISTANCE <= d < SAFE_DISTANCE; a non-zero steering
\* and backward when 0 <= d < DANGER_DISTANCE.
ObstacleRangesPartition ==
    (probe.fn = "obstacle" /\ probe.done) =>
        LET d == probe.distance
            ops == probe.out
        IN  /\ d < 0 => ops = <<>>
            /\ d >= 0 => Len(ops) = 2 /\ ops[1].a = "dir" /\ ops[2].a = "motor"
            /\ d >= SAFE_DISTANCE => Steers(ops) = {0} /\ Drives(ops) = {MOVE_SPEED}
            /\ (d >= DANGER_DISTANCE /\ d < SAFE_DISTANCE) =>
                  0 \notin Steers(ops) /\ Drives(ops) = {MOVE_SPEED}
            /\ (d >= 0 /\ d < DANGER_DISTANCE) =>
                  0 \notin Steers(ops) /\ Drives(ops) = {0 - MOVE_SPEED}

\* A reading of exactly SAFE_DISTANCE drives straight ahead.
SafeDistanceDrivesStraight ==
    /\ probe.fn = "obstacle" /\ probe.done /\ probe.distance = SAFE_DISTANCE
    /\ probe.out = <<SetDir(0), Forward(MOVE_SPEED)>>

\* C26: the line status <<left, centre, right>> is classified Lost when all
\* three are 0, Forward when the centre is 1, else Right when the left sensor
\* is 1, else Left; Forward steers 0, Left steers LINE_TRACK_OFFSET and Right
\* steers -LINE_TRACK_OFFSET, each driving forward at LINE_TRACK_SPEED.
LineClassification ==
    (probe.fn = "line" /\ probe.done) =>
        LET s == probe.status
            gm == probe.out.gm_state
            ops == probe.out.ops
        IN  /\ gm = "stop" <=> s = <<0, 0, 0>>
            /\ gm = "forward" <=> s[2] = 1
            /\ gm = "right" <=> (s[2] = 0 /\ s[1] = 1)
            /\ gm = "left" <=> (s[2] = 0 /\ s[1] = 0 /\ s[3] = 1)
            /\ gm = "forward" => ops = <<SetDir(0), Forward(LINE_TRACK_SPEED)>>
            /\ gm = "left" => ops = <<SetDir(LINE_TRACK_OFFSET), Forward(LINE_TRACK_SPEED)>>
            /\ gm = "right" => ops = <<SetDir(0 - LINE_TRACK_OFFSET), Forward(LINE_TRACK_SPEED)>>
            /\ LINE_TRACK_OFFSET # 0

\* Left and centre sensors both on the line: classified Forward, steering 0.
CentreWinsOverLeft ==
    /\ probe.fn = "line" /\ probe.done /\ probe.status = <<1, 1, 0>>
    /\ probe.out.gm_state = "forward"
    /\ probe.out.ops = <<SetDir(0), Forward(LINE_TRACK_SPEED)>>

\* C27: the safety monitor skips its distance check exactly when the reading
\* is negative, as obstacle_avoid_loop does: a reading of 0 is checked (and,
\* being below TOO_CLOSE_DISTANCE, sets too_close).
MonitorSkipsOnlyNegative ==
    [][(sm.pc = "branch" /\ sm'.pc # "branch") =>
          /\ (sm'.pc = "cliff" /\ sm'.todo = <<>>) <=> sm.distance < 0
          /\ sm.distance = 0 => too_close']_vars

\* C28: the keyboard's stop key resolves as the voice stop command does: its
\* dispatch sets autonomous_mode to None and starts stop, steering 0.
KeyStopClearsMode ==
    [][(kb.pc = "dispatch" /\ kb.key = " " /\ kb' # kb) =>
          /\ autonomous_mode' = NONE
          /\ kb'.pc = "ops" /\ kb'.todo = <<Stop, SetDir(0)>>]_vars

\* The utterances in which process_command_keyword finds no system command
\* and no key of the action table.
Unrecognised ==
    {u \in Utterances : ~SystemCommand(Strip(Lower(u))) /\ KeysIn(Strip(Lower(u))) = {}}

\* C29: a text in which no system command and no key of the action table is
\* found resolves to unhandled (to empty when nothing is left of it after
\* normalization), and only such a text does; the command that main() hears
\* unhandled leaves awake, autonomous_mode, too_close, the mode loops and the
\* actuator as they are and starts no actuator sequence.
UnhandledHasNoEffect ==
    [][/\ \A u \in Utterances :
             u \in Unrecognised <=> Resolved[u].kind \in {"empty", "unhandled"}
       /\ Resolved[<<>>].kind = "empty" /\ Resolved[<<" ">>].kind = "empty"
       /\ Resolved[<<"h","e","l","l","o">>].kind = "unhandled"
       /\ (main.handled /\ ~main'.handled) =>
             /\ main.pc = "listen" /\ main'.pc = "cmd" /\ main'.todo = <<>>
             /\ awake' = awake /\ autonomous_mode' = autonomous_mode
             /\ too_close' = too_close /\ loops' = loops /\ car' = car]_vars

\* A text that is not understood has been heard while line tracking is active.
UnhandledHeardInMode ==
    ~main.handled /\ main.pc = "cmd" /\ awake /\ autonomous_mode = "line_track"

\* The function bound to an action name of a response: the name lower-cased,
\* underscores read as spaces, must be a key of the action table.
BoundTo(name) ==
    LET key == Replace(Lower(name), "_", " ")
    IN  IF DictIndex(key) # 0 THEN <<ACTIONS_DICT[DictIndex(key)][2]>> ELSE <<>>

AsleepSettled ==
    ~awake /\ main.pc = "wait" /\ \A t \in Loops : loops[t].pc = "idle"

WakeOnlyWhileRunning ==
    [][/\ (~awake /\ awake') => (running /\ main.pc = "wake" /\ lock' = "main")
       /\ (main.pc = "wake2" /\ main' # main) => (elapsed' = 0 /\ lock = "main" /\ lock' = "free")
       /\ (awake /\ main.pc \in {"wake", "wake2"}) => main'.pc # "timeout"]_vars

\* C33: an action function run to its end on the actuator at rest leaves the
\* motors stopped and the steering at 0; if it commands the motors its last
\* motor command is stop, and if it commands the steering its last steering
\* command is 0.
ScriptsEndNeutral ==
    (probe.fn = "script" /\ probe.done) =>
        LET ops == Script(probe.f)
            motor == {k \in 1..Len(ops) : ops[k].a = "motor"}
            dir == {k \in 1..Len(ops) : ops[k].a = "dir"}
        IN  /\ probe.out.motor = 0 /\ probe.out.dir = 0
            /\ \A k \in motor : (\A n \in motor : n <= k) => ops[k].v = 0
            /\ \A k \in dir : (\A n \in dir : n <= k) => ops[k].v = 0

\* dance, which drives and steers, has run to its end.
DanceEndsNeutral ==
    /\ probe.fn = "script" /\ probe.done /\ probe.f = "dance"
    /\ 20 \in Drives(Script("dance")) /\ 25 \in Steers(Script("dance"))
    /\ probe.out.motor = 0 /\ probe.out.dir = 0

\* C34: too_close is written only by the monitor's distance check. A tick
\* whose reading d is valid (not negative) and below TOO_CLOSE_DISTANCE sets
\* it; a valid d that is >= DANGER_DISTANCE, or >= TOO_CLOSE_DISTANCE outside
\* obstacle-avoid mode, clears it; a negative reading, a failed read and a d
\* in [TOO_CLOSE_DISTANCE, DANGER_DISTANCE) in obstacle-avoid mode leave it
\* as it was.
TooCloseUpdateRule ==
    [][/\ too_close' # too_close => (sm' # sm /\ sm.pc \in {"branch", "clear"})
       /\ (sm.pc = "clear" /\ sm' # sm) => ~too_close'
       /\ (sm.pc = "loop" /\ sm'.read_failed) => (sm'.pc = "cliff" /\ too_close' = too_close)
       /\ (sm.pc = "branch" /\ sm' # sm) =>
             LET d == sm.distance
                 mid == d >= TOO_CLOSE_DISTANCE /\ d < DANGER_DISTANCE
             IN  /\ (d >= 0 /\ d < TOO_CLOSE_DISTANCE) => (too_close' /\ sm'.pc # "clear")
                 /\ (d >= DANGER_DISTANCE \/ (mid /\ autonomous_mode # "obstacle_avoid")) =>
                       sm'.pc = "clear"
                 /\ (d < 0 \/ (mid /\ autonomous_mode = "obstacle_avoid")) =>
                       (too_close' = too_close /\ sm'.pc # "clear")]_vars

\* C35: with LLM_ENABLED true and no chat collaborator, a command heard by
\* main() is resolved by process_command_keyword as it would be with
\* LLM_ENABLED false; the call does not raise and shutdown is not run.
KeywordFallbackKeepsRunning ==
    (probe.fn = "command" /\ probe.done /\ probe.enabled /\ ~probe.llm) =>
        /\ probe.out.processor = "process_command_keyword"
        /\ ~probe.out.raised
        /\ ~probe.out.shutdown
        /\ probe.out.kind = process_command_keyword(probe.text).kind

\* C36: a Lost iteration of the line loop leaves the remembered
\* classification as it was; when that is Forward, or nothing was remembered
\* yet, it issues no operation, so after a Forward iteration the actuator
\* still drives forward at LINE_TRACK_SPEED, steering 0.
LostKeepsCommand ==
    (probe.fn = "line" /\ probe.done /\ probe.out.gm_state = "stop") =>
        /\ probe.status = <<0, 0, 0>>
        /\ probe.out.last_state = probe.last_state
        /\ probe.last_state \in {"forward", "stop"} =>
              /\ probe.out.ops = <<>>
              /\ LET before == RunOps(car, LineIteration(<<0, 1, 0>>, probe.last_state).ops)
                     after == RunOps(before, probe.out.ops)
                 IN  after = before /\ after.motor = LINE_TRACK_SPEED /\ after.dir = 0

\* The line is lost after a Forward iteration: nothing is commanded and
\* Forward stays remembered.
LostAfterForward ==
    /\ probe.fn = "line" /\ probe.done
    /\ probe.status = <<0, 0, 0>> /\ probe.last_state = "forward"
    /\ probe.out.ops = <<>> /\ probe.out.last_state = "forward"

\* C37: on a reading d with TOO_CLOSE_DISTANCE <= d < DANGER_DISTANCE in
\* obstacle-avoid mode the monitor's steer-away sequence and the
\* obstacle-avoid iteration steer to the same side and drive in the same
\* direction; and the iteration steers to the same side on a reading below
\* DANGER_DISTANCE as on one between DANGER_DISTANCE and SAFE_DISTANCE.
SteerAwayConsistent ==
    (probe.fn = "obstacle" /\ probe.done) =>
        LET d == probe.distance
            ops == probe.out
        IN  /\ (d >= TOO_CLOSE_DISTANCE /\ d < DANGER_DISTANCE) =>
                  /\ SafetyBranch(d, "obstacle_avoid") = "steer_away"
                  /\ \A a \in Steers(SteerAwaySeq) : \A b \in Steers(ops) : a * b > 0
                  /\ \A a \in Drives(SteerAwaySeq) : \A b \in Drives(ops) : a * b > 0
            /\ (d >= 0 /\ d < DANGER_DISTANCE) =>
                  \A a \in Steers(ops) :
                     \A b \in Steers(ObstacleIteration(DANGER_DISTANCE)) : a * b > 0

\* C38: a text heard while awake sets last_command_time to the current time
\* in the step that hears it, handled or not; when it holds a wake word it is
\* not dispatched (no actuator sequence is started, awake, autonomous_mode
\* and the mode loops stay as they are) even when it also holds a command
\* keyword.
WakeTextNotDispatched ==
    [][(awake /\ main.pc = "listen" /\ main'.text # <<>>) =>
          /\ elapsed' = 0
          /\ Strip(main'.text) # <<>>
          /\ IF AnyIn(WAKE_WORDS, Lower(main'.text))
             THEN /\ main'.pc = "cmd" /\ main'.todo = <<>> /\ main'.handled
                  /\ UNCHANGED <<running, awake, listening, autonomous_mode, too_close,
                                 car, loops>>
             ELSE main'.handled <=> main'.text \notin Unrecognised]_vars

\* "Hey robot go to sleep" was heard in line-track mode with the command
\* time about to run out: the robot is awake, the mode is kept, the time is
\* refreshed.
WakeAndSleepHeard ==
    /\ main.text = <<"H","e","y"," ","r","o","b","o","t"," ","g","o"," ","t","o"," ","s","l","e","e","p">>
    /\ main.pc = "cmd" /\ awake /\ elapsed = 0
    /\ autonomous_mode = "line_track"
    /\ \E t \in Loops : loops[t].pc # "idle"

====
